---- MODULE Spec2Model ----
(***************************************************************************)
(* A model of use-editable's useEditable hook (src/unnamed/part_001, lines *)
(* 1-492): the contenteditable element's node tree, the MutationObserver   *)
(* with its undelivered records, the hook's session state (queue, history, *)
(* position, disconnected flag) and one action per handler.  The DOM       *)
(* operations the hook calls (Range, insertBefore, removeChild, ...) are   *)
(* modelled after the DOM standard's algorithms, the renderer after a      *)
(* React component that renders the content as keyed text leaves.          *)
(***************************************************************************)
EXTENDS Integers, Sequences, FiniteSets, TLC

\* ---------------------------------------------------------------- bounds
\* Longest canonical text the environment lets the tree hold.
MaxLen == 3
\* Most mutation records alive at once (undelivered plus queued).
MaxQueue == 2
\* Most entries the modelled history grows to before recording is cut off.
MaxHist == 2
\* Most render passes of one session.
MaxPasses == 3

\* ------------------------------------------------------------ node pools
\* Node identities.  Root is the element the hook is attached to, Doc the
\* document around it, None the null node.
Root == 0
None == -1
Doc == -2
\* Text leaves the renderer owns, text nodes created by the browser or by
\* createTextNode, <br> elements the browser creates, and an element other
\* than <br> nested in the root (a <span> or <div>).
OwnedNodes == {1, 2}
ForeignNodes == {3, 4}
BrNodes == {5}
ElNodes == {6}
TextNodes == OwnedNodes \cup ForeignNodes
Containers == {Root} \cup ElNodes

NL == "\n"
\* The null oldValue of a childList record: no string equals it.
Null == <<"null">>

\* ------------------------------------------------------- string helpers
Take(s, n) == SubSeq(s, 1, n)
Drop(s, n) == SubSeq(s, n + 1, Len(s))

RECURSIVE CountNL(_)
CountNL(s) ==
  IF s = <<>> THEN 0 ELSE (IF Head(s) = NL THEN 1 ELSE 0) + CountNL(Tail(s))

\* s.split('\n') and its last element.
RECURSIVE LastLine(_)
LastLine(s) ==
  IF \A i \in 1..Len(s) : s[i] # NL THEN s
  ELSE LastLine(Tail(s))

Range(s) == {s[i] : i \in 1..Len(s)}
IndexOf(s, x) == CHOOSE i \in 1..Len(s) : s[i] = x
InsertAt(s, i, x) == Take(s, i) \o <<x>> \o Drop(s, i)
RemoveAt(s, i) == Take(s, i - 1) \o Drop(s, i)
Min(S) == CHOOSE x \in S : \A y \in S : x <= y

\* ------------------------------------------------------------ the tree
\* t.kids[c]: the children of container c in order; t.data[n]: the data of
\* text node n.
KidsOf(t, n) == IF n \in Containers THEN t.kids[n] ELSE <<>>

ParentOf(t, n) ==
  IF \E c \in Containers : n \in Range(t.kids[c])
  THEN CHOOSE c \in Containers : n \in Range(t.kids[c])
  ELSE None

NextSibling(t, n) ==
  LET p == ParentOf(t, n) IN
  IF p = None THEN None
  ELSE LET i == IndexOf(t.kids[p], n) IN
       IF i < Len(t.kids[p]) THEN t.kids[p][i + 1] ELSE None

FirstChild(t, n) == IF KidsOf(t, n) = <<>> THEN None ELSE KidsOf(t, n)[1]

\* node.textContent
RECURSIVE TextContent(_, _)
RECURSIVE TextOfKids(_, _, _)
TextOfKids(t, n, i) ==
  IF i > Len(KidsOf(t, n)) THEN <<>>
  ELSE TextContent(t, KidsOf(t, n)[i]) \o TextOfKids(t, n, i + 1)
TextContent(t, n) ==
  IF n \in TextNodes THEN t.data[n] ELSE TextOfKids(t, n, 1)

\* The length of a node: of its data, or the number of its children.
NodeLength(t, n) == IF n \in TextNodes THEN Len(t.data[n]) ELSE Len(KidsOf(t, n))

\* Every boundary point inside node n, in tree order.
RECURSIVE Walk(_, _)
RECURSIVE WalkKids(_, _, _)
WalkKids(t, c, i) ==
  IF i > Len(KidsOf(t, c)) THEN <<>>
  ELSE Walk(t, KidsOf(t, c)[i]) \o <<[n |-> c, o |-> i]>> \o WalkKids(t, c, i + 1)
Walk(t, n) ==
  IF n \in TextNodes THEN [i \in 1..(Len(t.data[n]) + 1) |-> [n |-> n, o |-> i - 1]]
  ELSE <<[n |-> n, o |-> 0]>> \o WalkKids(t, n, 1)

\* The place of a boundary point in tree order; (document, 0) lies before
\* the element and (document, 1) after it.
Ord(t, bp) ==
  LET w == Walk(t, Root) IN
  IF \E i \in 1..Len(w) : w[i] = bp THEN IndexOf(w, bp)
  ELSE IF bp = [n |-> Doc, o |-> 1] THEN Len(w) + 1
  ELSE 0

\* Text nodes in document order.
RECURSIVE TextOrder(_, _)
RECURSIVE TextOrderKids(_, _, _)
TextOrderKids(t, c, i) ==
  IF i > Len(KidsOf(t, c)) THEN <<>>
  ELSE TextOrder(t, KidsOf(t, c)[i]) \o TextOrderKids(t, c, i + 1)
TextOrder(t, n) ==
  IF n \in TextNodes THEN <<n>> ELSE TextOrderKids(t, n, 1)

\* Range.toString() of the range from (element, 0) to bp: the data of the
\* text nodes before bp, and of bp's own text node up to bp's offset.
RECURSIVE TextBeforeIn(_, _, _)
TextBeforeIn(t, bp, ns) ==
  IF ns = <<>> THEN <<>>
  ELSE LET m == Head(ns)
           part == IF Ord(t, [n |-> m, o |-> Len(t.data[m])]) <= Ord(t, bp) THEN t.data[m]
                   ELSE IF bp.n = m THEN Take(t.data[m], bp.o)
                   ELSE <<>>
       IN part \o TextBeforeIn(t, bp, Tail(ns))
TextBefore(t, bp) == TextBeforeIn(t, bp, TextOrder(t, Root))

\* ------------------------------------------------------- TextProjector
RECURSIVE toStringLoop(_, _, _)
toStringLoop(t, queue, content) ==
  IF queue = <<>> \/ queue[Len(queue)] = None THEN content
  ELSE LET node == queue[Len(queue)]
           rest == Take(queue, Len(queue) - 1)
           c1 == IF node \in TextNodes THEN content \o t.data[node]
                 ELSE IF node \in BrNodes THEN content \o <<NL>>
                 ELSE content
           q1 == IF NextSibling(t, node) # None THEN Append(rest, NextSibling(t, node)) ELSE rest
           q2 == IF FirstChild(t, node) # None THEN Append(q1, FirstChild(t, node)) ELSE q1
       IN toStringLoop(t, q2, c1)

\* toString without the separator appended after the loop.
toStringNoAppend(t) == toStringLoop(t, <<FirstChild(t, Root)>>, <<>>)

toString(t) ==
  LET content == toStringLoop(t, <<FirstChild(t, Root)>>, <<>>) IN
  IF content = <<>> \/ content[Len(content)] # NL THEN content \o <<NL>> ELSE content

\* ------------------------------------------------------------- ranges
\* A range is a start and an end boundary point; document.createRange()
\* gives the range collapsed at the document's start.
NewRange == [s |-> [n |-> Doc, o |-> 0], e |-> [n |-> Doc, o |-> 0]]
Collapsed(r) == r.s = r.e

\* Range.setStart / Range.setEnd: the other end follows a boundary point
\* set past it.
RangeSetStart(t, r, bp) ==
  [s |-> bp, e |-> IF Ord(t, bp) > Ord(t, r.e) THEN bp ELSE r.e]
RangeSetEnd(t, r, bp) ==
  [e |-> bp, s |-> IF Ord(t, bp) < Ord(t, r.s) THEN bp ELSE r.s]
\* The boundary point after a node: (its parent, its index + 1).
After(t, node) == [n |-> ParentOf(t, node), o |-> IndexOf(t.kids[ParentOf(t, node)], node)]

RangeToString(t, r) == Drop(TextBefore(t, r.e), Len(TextBefore(t, r.s)))

setStart(t, range, node, offset) ==
  IF offset < Len(TextContent(t, node))
  THEN RangeSetStart(t, range, [n |-> node, o |-> offset])
  ELSE RangeSetStart(t, range, After(t, node))

setEnd(t, range, node, offset) ==
  IF offset < Len(TextContent(t, node))
  THEN RangeSetEnd(t, range, [n |-> node, o |-> offset])
  ELSE RangeSetEnd(t, range, After(t, node))

\* ------------------------------------------------------ PositionTracker
getPosition(t, sel) ==
  LET extent == IF ~Collapsed(sel) THEN Len(RangeToString(t, sel)) ELSE 0
      content == TextBefore(t, sel.s)
  IN [position |-> Len(content), extent |-> extent,
      content |-> LastLine(content), line |-> CountNL(content)]

\* getPosition of src/src/useEditable.ts: a traversal with a running text up
\* to the focus node, instead of a range. A focus on a container is first
\* moved to the child at the focus offset, if there is one.
RECURSIVE getPositionLoop(_, _, _, _, _)
getPositionLoop(t, queue, focusNode, focusOffset, content) ==
  IF queue = <<>> \/ queue[Len(queue)] = None THEN content
  ELSE LET node == queue[Len(queue)]
           rest == Take(queue, Len(queue) - 1)
           q1 == IF NextSibling(t, node) # None /\ node # focusNode
                 THEN Append(rest, NextSibling(t, node)) ELSE rest
           q2 == IF FirstChild(t, node) # None THEN Append(q1, FirstChild(t, node)) ELSE q1
       IN IF node \in TextNodes
          THEN IF node = focusNode THEN content \o Take(t.data[node], focusOffset)
               ELSE getPositionLoop(t, q2, focusNode, focusOffset, content \o t.data[node])
          ELSE IF node \in BrNodes
          THEN getPositionLoop(t, q2, focusNode, focusOffset, content \o <<NL>>)
          ELSE getPositionLoop(t, q2, focusNode, focusOffset, content)

getPositionByTraversal(t, sel) ==
  LET between == sel.e.n \notin TextNodes
      focusNode == IF between /\ sel.e.o <= Len(KidsOf(t, sel.e.n)) - 1
                   THEN KidsOf(t, sel.e.n)[sel.e.o + 1] ELSE sel.e.n
      focusOffset == IF between THEN 0 ELSE sel.e.o
      content == getPositionLoop(t, <<FirstChild(t, Root)>>, focusNode, focusOffset, <<>>)
  IN [position |-> Len(content), content |-> LastLine(content), line |-> CountNL(content)]

\* --------------------------------------------------------- RangeBuilder
RECURSIVE makeRangeLoop(_, _, _, _, _, _, _)
makeRangeLoop(t, queue, current, position, start, end, range) ==
  IF queue = <<>> \/ queue[Len(queue)] = None THEN range
  ELSE LET node == queue[Len(queue)]
           rest == Take(queue, Len(queue) - 1)
           q1 == IF NextSibling(t, node) # None THEN Append(rest, NextSibling(t, node)) ELSE rest
           q2 == IF FirstChild(t, node) # None THEN Append(q1, FirstChild(t, node)) ELSE q1
           hit(offset) ==
             IF position = start
             THEN LET r2 == setStart(t, range, node, offset) IN
                  IF end # start
                  THEN makeRangeLoop(t, queue, current, end, start, end, r2)
                  ELSE r2
             ELSE setEnd(t, range, node, offset)
       IN IF node \in TextNodes
          THEN LET length == Len(t.data[node]) IN
               IF current + length >= position THEN hit(position - current)
               ELSE makeRangeLoop(t, q2, current + length, position, start, end, range)
          ELSE IF node \in BrNodes
          THEN IF current + 1 >= position THEN hit(0)
               ELSE makeRangeLoop(t, q2, current + 1, position, start, end, range)
          ELSE makeRangeLoop(t, q2, current, position, start, end, range)

\* makeRange(element, start, end); an omitted end is NoEnd.
NoEnd == -1
makeRange(t, start0, end0) ==
  LET start == IF start0 <= 0 THEN 0 ELSE start0
      end == IF end0 = NoEnd \/ end0 = 0 \/ end0 < 0 THEN start ELSE end0
  IN makeRangeLoop(t, <<FirstChild(t, Root)>>, 0, start, start, end, NewRange)

\* ------------------------------------------------------ DOM operations
\* A DOM state D threads through the operations of one handler:
\*   t      the tree
\*   sel    the selection's live range
\*   wr     a second live range (the Range object a handler works on)
\*   recs   the records the observer has queued but not delivered
\*   obs    what the observer observes on the element (Off: nothing)
\*   busy   nodes referenced by records of the hook's queue
\*   threw  whether a DOM operation has thrown
InTree(t) == UNION {Range(t.kids[c]) : c \in Containers}

RECURSIVE IsInclAncestor(_, _, _)
IsInclAncestor(t, a, x) ==
  IF x = a THEN TRUE
  ELSE IF x = None \/ x = Root \/ x = Doc THEN FALSE
  ELSE IsInclAncestor(t, a, ParentOf(t, x))

RecordNodes(rec) == {rec.target} \cup Range(rec.added) \cup Range(rec.removed) \cup {rec.next}
NodesOfRecords(recs) == UNION {RecordNodes(recs[i]) : i \in 1..Len(recs)}

FreeNodes(D) == ForeignNodes \ (InTree(D.t) \cup D.busy \cup NodesOfRecords(D.recs))
Fresh(D) == Min(FreeNodes(D))

\* LET v == x IN F(v), with x evaluated once.
Eval(x, F(_)) == CHOOSE r \in {F(v) : v \in {x}} : TRUE

MapRanges(D, F(_)) ==
  [D EXCEPT !.sel = [s |-> F(D.sel.s), e |-> F(D.sel.e)],
            !.wr = [s |-> F(D.wr.s), e |-> F(D.wr.e)]]

\* A record is queued for a mutation inside the observed element.
\* observerSettings, and an observer that observes nothing.
observerSettings ==
  [characterData |-> TRUE, characterDataOldValue |-> TRUE, childList |-> TRUE,
   subtree |-> TRUE]
Off ==
  [characterData |-> FALSE, characterDataOldValue |-> FALSE, childList |-> FALSE,
   subtree |-> FALSE]

Observe(D, target, rec) ==
  LET isData == rec.oldValue # Null
      wanted == IF isData THEN D.obs.characterData ELSE D.obs.childList
      inScope == target = Root \/ (D.obs.subtree /\ IsInclAncestor(D.t, Root, target))
      r == IF isData /\ ~D.obs.characterDataOldValue THEN [rec EXCEPT !.oldValue = Null]
           ELSE rec
  IN IF wanted /\ inScope
     THEN [D EXCEPT !.recs = Append(@, r), !.made = Append(@, r)]
     ELSE D

\* "Replace data" of the DOM standard: count characters of text node n
\* from offset off are replaced by str.
ReplaceData(D, n, off, count, str) ==
  LET old == D.t.data[n]
      new == Take(old, off) \o str \o Drop(old, off + count)
      adj(bp) == IF bp.n # n THEN bp
                 ELSE IF bp.o > off /\ bp.o <= off + count THEN [bp EXCEPT !.o = off]
                 ELSE IF bp.o > off + count THEN [bp EXCEPT !.o = @ + Len(str) - count]
                 ELSE bp
      D1 == Observe(D, n, [target |-> n, oldValue |-> old, added |-> <<>>,
                            removed |-> <<>>, next |-> None])
  IN MapRanges([D1 EXCEPT !.t.data[n] = new], adj)

\* "Insert" of the DOM standard: node n, which has no parent, becomes the
\* child of p before ref (None: the last child).
InsertNode(D, n, p, ref) ==
  LET idx == IF ref = None THEN Len(D.t.kids[p]) ELSE IndexOf(D.t.kids[p], ref) - 1
      adj(bp) == IF bp.n = p /\ bp.o > idx THEN [bp EXCEPT !.o = @ + 1] ELSE bp
      D1 == MapRanges([D EXCEPT !.t.kids[p] = InsertAt(@, idx, n)], adj)
  IN Observe(D1, p, [target |-> p, oldValue |-> Null, added |-> <<n>>,
                     removed |-> <<>>, next |-> ref])

\* "Remove" of the DOM standard.
RemoveNode(D, n) ==
  LET p == ParentOf(D.t, n)
      idx == IndexOf(D.t.kids[p], n) - 1
      adj(bp) == IF IsInclAncestor(D.t, n, bp.n) THEN [n |-> p, o |-> idx]
                 ELSE IF bp.n = p /\ bp.o > idx THEN [bp EXCEPT !.o = @ - 1]
                 ELSE bp
      D1 == Observe(D, p, [target |-> p, oldValue |-> Null, added |-> <<>>,
                           removed |-> <<n>>, next |-> NextSibling(D.t, n)])
  IN [MapRanges(D1, adj) EXCEPT !.t.kids[p] = RemoveAt(@, idx + 1)]

RECURSIVE RemoveAll(_, _)
RemoveAll(D, ns) == IF ns = <<>> THEN D ELSE RemoveAll(RemoveNode(D, Head(ns)), Tail(ns))

\* "Replace all" of the DOM standard (element.textContent = ..., innerHTML,
\* replaceChildren): one record holds every removed child.
ReplaceAll(D, p, new) ==
  LET old == D.t.kids[p]
      adj(bp) == IF bp.n # p /\ IsInclAncestor(D.t, p, bp.n) THEN [n |-> p, o |-> 0]
                 ELSE IF bp.n = p THEN [bp EXCEPT !.o = 0]
                 ELSE bp
      D1 == Observe(D, p, [target |-> p, oldValue |-> Null, added |-> new,
                           removed |-> old, next |-> None])
  IN [MapRanges(D1, adj) EXCEPT !.t.kids[p] = new]

\* Node.insertBefore(node, child) on target: NotFoundError when child is
\* not a child of target; the node is first removed from where it is.
DomInsertBefore(D, target, node, child) ==
  IF D.threw THEN D
  ELSE IF target \notin Containers
          \/ (child # None /\ ParentOf(D.t, child) # target)
          \/ IsInclAncestor(D.t, node, target)
  THEN [D EXCEPT !.threw = TRUE]
  ELSE LET ref == IF child = node THEN NextSibling(D.t, node) ELSE child
           D1 == IF ParentOf(D.t, node) # None THEN RemoveNode(D, node) ELSE D
       IN InsertNode(D1, node, target, ref)

\* Node.removeChild(child) on target: NotFoundError when child is not a
\* child of target.
DomRemoveChild(D, target, child) ==
  IF D.threw THEN D
  ELSE IF ParentOf(D.t, child) # target THEN [D EXCEPT !.threw = TRUE]
  ELSE RemoveNode(D, child)

\* node.textContent = value on a text node.
DomSetText(D, n, value) ==
  IF D.threw THEN D ELSE ReplaceData(D, n, 0, Len(D.t.data[n]), value)

\* Text.splitText(off): the data after off moves to a new next sibling.
SplitText(D, n, off) ==
  LET new == Fresh(D)
      p == ParentOf(D.t, n)
      idx == IndexOf(D.t.kids[p], n) - 1
      D0 == [D EXCEPT !.t.data[new] = Drop(D.t.data[n], off)]
      D1 == InsertNode(D0, new, p, NextSibling(D.t, n))
      adj(bp) == IF bp.n = n /\ bp.o > off THEN [n |-> new, o |-> bp.o - off]
                 ELSE IF bp.n = p /\ bp.o = idx + 1 THEN [bp EXCEPT !.o = @ + 1]
                 ELSE bp
      D2 == MapRanges(D1, adj)
  IN ReplaceData(D2, n, off, Len(D.t.data[n]) - off, <<>>)

\* Range.deleteContents() on the working range.
RECURSIVE Climb(_, _, _)
Climb(t, ref, endNode) ==
  IF ParentOf(t, ref) # None /\ ~IsInclAncestor(t, ParentOf(t, ref), endNode)
  THEN Climb(t, ParentOf(t, ref), endNode)
  ELSE ref

RECURSIVE TreeOrder(_, _)
RECURSIVE TreeOrderKids(_, _, _)
TreeOrderKids(t, c, i) ==
  IF i > Len(KidsOf(t, c)) THEN <<>>
  ELSE TreeOrder(t, KidsOf(t, c)[i]) \o TreeOrderKids(t, c, i + 1)
TreeOrder(t, n) == <<n>> \o TreeOrderKids(t, n, 1)

DeleteContents(D) ==
  LET r == D.wr
      t == D.t
  IN IF D.threw \/ Collapsed(r) THEN D
     ELSE IF r.s.n = r.e.n /\ r.s.n \in TextNodes
     THEN ReplaceData(D, r.s.n, r.s.o, r.e.o - r.s.o, <<>>)
     ELSE LET contained(n) ==
                /\ Ord(t, [n |-> n, o |-> 0]) > Ord(t, r.s)
                /\ Ord(t, [n |-> n, o |-> NodeLength(t, n)]) < Ord(t, r.e)
              toRemove == SelectSeq(Tail(TreeOrder(t, Root)),
                            LAMBDA n : contained(n) /\ ~contained(ParentOf(t, n)))
              newbp == IF IsInclAncestor(t, r.s.n, r.e.n) THEN r.s
                       ELSE LET ref == Climb(t, r.s.n, r.e.n) IN
                            [n |-> ParentOf(t, ref), o |-> IndexOf(t.kids[ParentOf(t, ref)], ref)]
              D1 == IF r.s.n \in TextNodes
                    THEN ReplaceData(D, r.s.n, r.s.o, Len(t.data[r.s.n]) - r.s.o, <<>>)
                    ELSE D
              D2 == RemoveAll(D1, toRemove)
              D3 == IF r.e.n \in TextNodes THEN ReplaceData(D2, r.e.n, 0, r.e.o, <<>>) ELSE D2
          IN [D3 EXCEPT !.wr = [s |-> newbp, e |-> newbp]]

\* Range.insertNode(node) on the working range, for a new text node with
\* the given data.  HierarchyRequestError when the range starts outside
\* the element (a text node cannot be the document's child).
InsertIntoRange(D, str) ==
  LET r == D.wr IN
  IF D.threw THEN D
  ELSE IF r.s.n = Doc \/ r.s.n = None \/ r.s.n \in BrNodes THEN [D EXCEPT !.threw = TRUE]
  ELSE LET inText == r.s.n \in TextNodes
           parent == IF inText THEN ParentOf(D.t, r.s.n) ELSE r.s.n
       IN
       Eval(IF inText THEN SplitText(D, r.s.n, r.s.o) ELSE D, LAMBDA D1 :
       Eval(IF inText THEN NextSibling(D1.t, r.s.n)
            ELSE IF r.s.o < Len(D.t.kids[r.s.n]) THEN D.t.kids[r.s.n][r.s.o + 1]
            ELSE None, LAMBDA ref :
       Eval(Fresh(D1), LAMBDA node :
       LET newOffset == (IF ref = None THEN Len(D1.t.kids[parent])
                         ELSE IndexOf(D1.t.kids[parent], ref) - 1) + 1
       IN
       Eval(InsertNode([D1 EXCEPT !.t.data[node] = str], node, parent, ref), LAMBDA D2 :
         IF Collapsed(D2.wr)
         THEN [D2 EXCEPT !.wr.e = [n |-> parent, o |-> newOffset]]
         ELSE D2))))

\* ------------------------------------------------------------ renderer
\* The owner renders its content as keyed text leaves: the first line
\* (with its separator) in leaf 1, the rest of the content in leaf 2.
FirstLineLen(c) ==
  IF \E i \in 1..Len(c) : c[i] = NL THEN Min({i \in 1..Len(c) : c[i] = NL}) ELSE Len(c)

Chunks(c) ==
  IF c = <<>> THEN <<>>
  ELSE IF FirstLineLen(c) = Len(c) THEN <<c>>
  ELSE <<Take(c, FirstLineLen(c)), Drop(c, FirstLineLen(c))>>

\* The tree the renderer produces for content c.
RenderTree(c) ==
  [kids |-> [x \in Containers |-> IF x = Root THEN [i \in 1..Len(Chunks(c)) |-> i] ELSE <<>>],
   data |-> [n \in TextNodes |-> IF n <= Len(Chunks(c)) THEN Chunks(c)[n] ELSE <<>>]]

\* The renderer's commit: it patches the leaves it owns from what it last
\* rendered (old) to the new content, by identity; it never looks at the
\* tree itself.
RECURSIVE Patch(_, _, _, _)
Patch(D, old, new, i) ==
  IF i > Len(old) /\ i > Len(new) THEN D
  ELSE LET D1 ==
             IF i <= Len(old) /\ i <= Len(new)
             THEN IF old[i] # new[i] THEN ReplaceData(D, i, 0, Len(D.t.data[i]), new[i]) ELSE D
             ELSE IF i <= Len(old)
             THEN IF ParentOf(D.t, i) # None THEN RemoveNode(D, i) ELSE D
             ELSE LET D0 == IF ParentOf(D.t, i) # None THEN RemoveNode(D, i) ELSE D
                  IN InsertNode([D0 EXCEPT !.t.data[i] = new[i]], i, Root, None)
       IN Patch(D1, old, new, i + 1)

\* Detached nodes no record refers to are garbage: their data is dropped.
Collect(t, recs) ==
  [t EXCEPT !.data = [n \in TextNodes |->
     IF n \in InTree(t) \cup NodesOfRecords(recs) THEN t.data[n] ELSE <<>>]]

\* --------------------------------------------------------- the session
VARIABLES
  tree,          \* the element's node tree
  sel,           \* the selection's range
  pending,       \* records the observer holds, not yet delivered
  observing,     \* what the observer observes on the element (Off: nothing)
  queue,         \* state.queue
  disconnected,  \* state.disconnected
  position,      \* state.position (NoPos: null)
  history,       \* state.history
  historyAt,     \* state.historyAt
  sinceTrack,    \* ms since _trackStateTimestamp (NoTs: undefined)
  sinceRecord,   \* ms since the last snapshot was recorded (NoTs: none yet)
  rendered,      \* the content the renderer last rendered
  owner,         \* the content the owner holds (what onChange last gave it)
  enabled,       \* whether the handlers are installed
  opts,          \* the options and the browser's plaintext-only support
  ev,            \* what the last step did: its handler and its onChange calls
  snap,          \* the tree before the first mutation now in the queue
  log,           \* the records the observer made since the last rollback
  passes         \* the render passes so far

vars == <<tree, sel, pending, observing, queue, disconnected, position, history,
          historyAt, sinceTrack, sinceRecord, rendered, owner, enabled, opts, ev, snap,
          log, passes>>

\* null: no position object has a negative extent or line.
NoPos == [position |-> -1, extent |-> -1, content |-> <<>>, line |-> -1]
NoTs == -1
NoSnap == [kids |-> [c \in Containers |-> <<None>>], data |-> [n \in TextNodes |-> <<>>]]
\* A hole of the history array (an index never assigned).
Hole == [pos |-> NoPos, text |-> Null]
\* timestamp - _trackStateTimestamp < 500
Debounce == 500
\* at > 500
HistCap == 500

\* The state a handler works on: the DOM state D and the session's fields.
Cur ==
  [t |-> tree, sel |-> sel, wr |-> sel, recs |-> pending, obs |-> observing,
   busy |-> NodesOfRecords(queue), threw |-> FALSE,
   queue |-> queue, disconnected |-> disconnected, position |-> position,
   history |-> history, historyAt |-> historyAt, sinceTrack |-> sinceTrack,
   sinceRecord |-> sinceRecord, owner |-> owner,
   out |-> <<>>, unblock |-> FALSE, rolled |-> FALSE, prevented |-> FALSE,
   made |-> <<>>, flushes |-> <<>>, tracks |-> <<>>]

\* Whether tree t is the tree the renderer produced for content c.
InSync(t, c) == t.kids = RenderTree(c).kids /\ \A n \in InTree(t) \cap TextNodes : t.data[n] = RenderTree(c).data[n]

\* state.onChange(text, position): the owner keeps the text.
onChange(M, text, pos) ==
  [M EXCEPT !.out = Append(@, [text |-> text, position |-> pos,
                               inSync |-> InSync(M.t, rendered)]),
            !.owner = text]

\* disconnect without state.observer.disconnect(): the flag alone.
disconnectFlagOnly(M) == [M EXCEPT !.disconnected = TRUE]

disconnect(M) ==
  [M EXCEPT !.obs = Off, !.recs = <<>>, !.disconnected = TRUE]

\* state.history[i] of a JavaScript array: undefined out of range.
HistoryGet(h, i) == IF i >= 0 /\ i < Len(h) THEN h[i + 1] ELSE Hole
\* state.history[at] = entry: an index past the end leaves holes.
HistorySet(h, at, e) ==
  IF at < Len(h) THEN [h EXCEPT ![at + 1] = e]
  ELSE h \o [i \in 1..(at - Len(h)) |-> Hole] \o <<e>>

\* What a snapshot attempt on M that ended in M1 met and did: whether it was
\* forced, whether the content was that of the entry at the current index,
\* whether the debounce window let it through, whether the attempt before
\* it (one that recorded or one that was skipped) lies 500 ms back or more,
\* the index before it, whether it left the history and the index alone (it
\* recorded nothing), where the index and the end of the history are after
\* it, whether the entry at the index holds the content, and whether the
\* entries up to the old index stayed in place or moved down by one.
TrackRecord(M, M1, ignoreTimestamp, content) ==
  [force |-> ignoreTimestamp,
   same |-> HistoryGet(M.history, M.historyAt) # Hole
            /\ HistoryGet(M.history, M.historyAt).text = content,
   fresh |-> ignoreTimestamp \/ M.sinceTrack = NoTs \/ M.sinceTrack >= Debounce,
   late |-> /\ M.sinceTrack = NoTs \/ M.sinceTrack >= Debounce
            /\ M.sinceRecord = NoTs \/ M.sinceRecord >= Debounce,
   i |-> M.historyAt,
   kept |-> M1.history = M.history /\ M1.historyAt = M.historyAt,
   at |-> M1.historyAt,
   lenBefore |-> Len(M.history),
   len |-> Len(M1.history),
   stored |-> HistoryGet(M1.history, M1.historyAt) # Hole
              /\ HistoryGet(M1.history, M1.historyAt).text = content,
   prefix |-> \A k \in 0..M.historyAt :
                HistoryGet(M1.history, k) = HistoryGet(M.history, k),
   shifted |-> \A k \in 1..M.historyAt :
                HistoryGet(M1.history, k - 1) = HistoryGet(M.history, k)]

\* trackState with the timestamp set when the handlers are installed: the
\* first attempt is debounced like any other.
trackStateStampedAtInstall(M, ignoreTimestamp) ==
  IF M.threw \/ M.position = NoPos THEN M
  ELSE Eval(toString(M.t), LAMBDA content :
       Eval(LET pos == getPosition(M.t, M.sel)
                lastEntry == HistoryGet(M.history, M.historyAt)
            IN IF (~ignoreTimestamp /\ (M.sinceTrack = NoTs \/ M.sinceTrack < Debounce))
                  \/ (lastEntry # Hole /\ lastEntry.text = content)
               THEN [M EXCEPT !.sinceTrack = 0]
               ELSE LET at == M.historyAt + 1
                        h1 == Take(HistorySet(M.history, at, [pos |-> pos, text |-> content]),
                                   at + 1)
                    IN IF at > HistCap
                       THEN [M EXCEPT !.historyAt = at - 1, !.history = Tail(h1),
                                      !.sinceRecord = 0]
                       ELSE [M EXCEPT !.historyAt = at, !.history = h1, !.sinceRecord = 0],
            LAMBDA M1 :
         [M1 EXCEPT !.tracks = Append(@, TrackRecord(M, M1, ignoreTimestamp, content))]))

\* trackState without the comparison with the entry at the current index.
trackStateNoDedupe(M, ignoreTimestamp) ==
  IF M.threw \/ M.position = NoPos THEN M
  ELSE Eval(toString(M.t), LAMBDA content :
       Eval(IF ~ignoreTimestamp /\ M.sinceTrack # NoTs /\ M.sinceTrack < Debounce
            THEN [M EXCEPT !.sinceTrack = 0]
            ELSE LET at == M.historyAt + 1
                     h1 == Take(HistorySet(M.history, at,
                                  [pos |-> getPosition(M.t, M.sel), text |-> content]), at + 1)
                 IN [M EXCEPT !.historyAt = at, !.history = h1, !.sinceRecord = 0],
            LAMBDA M1 :
         [M1 EXCEPT !.tracks = Append(@, TrackRecord(M, M1, ignoreTimestamp, content))]))

\* trackState without state.history.splice(at + 1).
trackStateNoSplice(M, ignoreTimestamp) ==
  IF M.threw \/ M.position = NoPos THEN M
  ELSE Eval(toString(M.t), LAMBDA content :
       Eval(LET pos == getPosition(M.t, M.sel)
                lastEntry == HistoryGet(M.history, M.historyAt)
            IN IF (~ignoreTimestamp /\ M.sinceTrack # NoTs /\ M.sinceTrack < Debounce)
                  \/ (lastEntry # Hole /\ lastEntry.text = content)
               THEN [M EXCEPT !.sinceTrack = 0]
               ELSE LET at == M.historyAt + 1
                        h1 == HistorySet(M.history, at, [pos |-> pos, text |-> content])
                    IN IF at > HistCap
                       THEN [M EXCEPT !.historyAt = at - 1, !.history = Tail(h1),
                                      !.sinceRecord = 0]
                       ELSE [M EXCEPT !.historyAt = at, !.history = h1, !.sinceRecord = 0],
            LAMBDA M1 :
         [M1 EXCEPT !.tracks = Append(@, TrackRecord(M, M1, ignoreTimestamp, content))]))

trackState(M, ignoreTimestamp) ==
  IF M.threw \/ M.position = NoPos THEN M
  ELSE Eval(toString(M.t), LAMBDA content :
       Eval(LET pos == getPosition(M.t, M.sel)
                lastEntry == HistoryGet(M.history, M.historyAt)
            IN IF (~ignoreTimestamp /\ M.sinceTrack # NoTs /\ M.sinceTrack < Debounce)
                  \/ (lastEntry # Hole /\ lastEntry.text = content)
               THEN [M EXCEPT !.sinceTrack = 0]
               ELSE LET at == M.historyAt + 1
                        h1 == Take(HistorySet(M.history, at, [pos |-> pos, text |-> content]),
                                   at + 1)
                    IN IF at > HistCap
                       THEN [M EXCEPT !.historyAt = at - 1, !.history = Tail(h1),
                                      !.sinceRecord = 0]
                       ELSE [M EXCEPT !.historyAt = at, !.history = h1, !.sinceRecord = 0],
            LAMBDA M1 :
         [M1 EXCEPT !.tracks = Append(@, TrackRecord(M, M1, ignoreTimestamp, content))]))

\* The rollback loop of flushChanges.
RECURSIVE ReinsertRemoved(_, _, _)
ReinsertRemoved(M, mutation, i) ==
  IF i < 1 THEN M
  ELSE ReinsertRemoved(DomInsertBefore(M, mutation.target, mutation.removed[i], mutation.next),
                       mutation, i - 1)

RECURSIVE RemoveAdded(_, _, _)
RemoveAdded(M, mutation, i) ==
  IF i < 1 THEN M
  ELSE RemoveAdded(IF ParentOf(M.t, mutation.added[i]) # None
                   THEN DomRemoveChild(M, mutation.target, mutation.added[i])
                   ELSE M,
                   mutation, i - 1)

RollbackOne(M, mutation) ==
  LET M1 == IF mutation.oldValue # Null
            THEN DomSetText(M, mutation.target, mutation.oldValue)
            ELSE M
      M2 == ReinsertRemoved(M1, mutation, Len(mutation.removed))
  IN RemoveAdded(M2, mutation, Len(mutation.added))

RECURSIVE Rollback(_)
Rollback(M) ==
  IF M.threw \/ M.queue = <<>> THEN M
  ELSE LET mutation == M.queue[Len(M.queue)]
           M1 == [M EXCEPT !.queue = Take(@, Len(@) - 1)]
       IN Rollback(RollbackOne(M1, mutation))

\* The condition of the older variant (src/src/useEditable.ts, line 354).
shouldFlushOnMove(M, pos) == M.queue # <<>> \/ pos.position # M.position.position

\* if (state.queue.length)
shouldFlush(M, pos) == M.queue # <<>>

\* flushChanges; flushes keeps what each call met and did: whether the queue
\* held records, whether the caret had moved off state.position, how often
\* it called onChange, and whether it left the tree and the observer alone.
flushChanges(M) ==
  IF M.threw THEN M
  ELSE Eval([M EXCEPT !.queue = @ \o M.recs, !.recs = <<>>], LAMBDA M1 :
       Eval(getPosition(M1.t, M1.sel), LAMBDA pos :
       Eval(IF shouldFlush(M1, pos)
            THEN Eval(disconnect(M1), LAMBDA M2 :
                 Eval(toString(M2.t), LAMBDA content :
                 Eval(Rollback([M2 EXCEPT !.position = pos, !.rolled = TRUE]), LAMBDA M3 :
                   IF M3.threw THEN M3 ELSE onChange(M3, content, pos))))
            ELSE M1, LAMBDA M4 :
         [M4 EXCEPT !.flushes = Append(@,
            [nonEmpty |-> M1.queue # <<>>,
             moved |-> M.position # NoPos /\ pos.position # M.position.position,
             calls |-> Len(M4.out) - Len(M.out),
             quiet |-> M4.t = M.t /\ M4.obs = M.obs /\ M4.disconnected = M.disconnected])])))

\* ------------------------------------------------------ EditOperations
\* update as the older variant has it (src/src/useEditable.ts, 676-685):
\* the stored offset is adjusted, the position handed to onChange is not.
updateEmitsUnadjusted(M, content) ==
  IF M.threw THEN M
  ELSE LET p0 == getPosition(M.t, M.sel)
           prevContent == toString(M.t)
       IN Eval([p0 EXCEPT !.position = @ + Len(content) - Len(prevContent)], LAMBDA pos :
            onChange([M EXCEPT !.position = pos], content, p0))

update(M, content) ==
  IF M.threw THEN M
  ELSE LET p0 == getPosition(M.t, M.sel)
           prevContent == toString(M.t)
       IN Eval([p0 EXCEPT !.position = @ + Len(content) - Len(prevContent)], LAMBDA pos :
            onChange([M EXCEPT !.position = pos], content, pos))

insert(M, append, deleteOffset) ==
  IF M.threw THEN M
  ELSE \* range = getCurrentRange(); range.deleteContents(); range.collapse()
       Eval(DeleteContents([M EXCEPT !.wr = M.sel]), LAMBDA M1 :
       Eval([M1 EXCEPT !.wr = [s |-> M1.wr.e, e |-> M1.wr.e],
                       !.sel = [s |-> M1.wr.e, e |-> M1.wr.e]], LAMBDA M2 :
       Eval(getPosition(M2.t, M2.sel), LAMBDA pos :
       LET offset == deleteOffset
           start == pos.position + (IF offset < 0 THEN offset ELSE 0)
           end == pos.position + (IF offset > 0 THEN offset ELSE 0)
       IN
       Eval(DeleteContents([M2 EXCEPT !.wr = makeRange(M2.t, start, end)]), LAMBDA M3 :
       Eval(IF append # <<>> THEN InsertIntoRange(M3, append) ELSE M3, LAMBDA M4 :
         IF M4.threw THEN M4
         ELSE [M4 EXCEPT !.sel = makeRange(M4.t, start + Len(append), NoEnd)])))))

\* The offset of the start of line row: lines.join('\n').length + 1 of the
\* first row lines of the text.
RECURSIVE LineStart(_, _)
LineStart(text, row) ==
  IF row = 0 THEN 0
  ELSE IF \E i \in 1..Len(text) : text[i] = NL
  THEN FirstLineLen(text) + LineStart(Drop(text, FirstLineLen(text)), row - 1)
  ELSE Len(text) + 1

\* move(pos): pos is a number, or a row and a column.
move(M, pos) ==
  IF M.threw THEN M
  ELSE LET p == IF pos.row = NoEnd THEN pos.column
                ELSE LineStart(toString(M.t), pos.row) + pos.column
       IN [M EXCEPT !.sel = makeRange(M.t, p, NoEnd)]

getState(M) == [text |-> toString(M.t), position |-> getPosition(M.t, M.sel)]

\* ------------------------------------------------------------ handlers
IsSpace(c) == c \in {" ", "\t", NL}
\* /\S/.exec(content): the index of the first non-whitespace character,
\* or the length of content.
RECURSIVE IndentLen(_)
IndentLen(content) ==
  IF content = <<>> \/ ~IsSpace(Head(content)) THEN 0 ELSE 1 + IndentLen(Tail(content))

Spaces(n) == [i \in 1..n |-> " "]
IsPrefix(p, x) == Len(p) <= Len(x) /\ Take(x, Len(p)) = p
\* blanklineRe: the length of the last indentation unit when content is a
\* whole number (at least one) of units, NoEnd when it does not match.
BlanklineMatch(content, n) ==
  IF n = 0 THEN (IF content = <<>> THEN 0 ELSE NoEnd)
  ELSE IF content # <<>> /\ Len(content) % n = 0 /\ \A i \in 1..Len(content) : content[i] = " "
  THEN n ELSE NoEnd

\* The undo/redo branch without the clamp (if (!history) state.historyAt =
\* ...): the index keeps the value it was moved to.
undoRedoNoClamp(M, shiftKey) ==
  LET at == IF shiftKey THEN M.historyAt + 1 ELSE M.historyAt - 1
      entry == HistoryGet(M.history, at)
      M1 == [M EXCEPT !.historyAt = at]
  IN IF entry # Hole
     THEN onChange([disconnect(M1) EXCEPT !.position = entry.pos], entry.text, entry.pos)
     ELSE M1

\* The undo/redo branch without state.position = history[0].
undoRedoKeepPosition(M, shiftKey) ==
  LET at == IF shiftKey THEN M.historyAt + 1 ELSE M.historyAt - 1
      entry == HistoryGet(M.history, at)
      M1 == [M EXCEPT !.historyAt = IF entry # Hole THEN at
                                    ELSE IF shiftKey THEN Len(M.history) - 1 ELSE 0]
  IN IF entry # Hole
     THEN onChange(disconnect(M1), entry.text, entry.pos)
     ELSE M1

\* The undo/redo branch of onKeyDown.
undoRedo(M, shiftKey) ==
  LET at == IF shiftKey THEN M.historyAt + 1 ELSE M.historyAt - 1
      entry == HistoryGet(M.history, at)
      M1 == [M EXCEPT !.historyAt = IF entry # Hole THEN at
                                    ELSE IF shiftKey THEN Len(M.history) - 1 ELSE 0]
  IN IF entry # Hole
     THEN onChange([disconnect(M1) EXCEPT !.position = entry.pos], entry.text, entry.pos)
     ELSE M1

\* onKeyDown without the dummy state change of the disconnected branch.
onKeyDownNoUnblock(M, key, repeat) ==
  IF M.disconnected THEN [M EXCEPT !.prevented = TRUE]
  ELSE trackState(M, FALSE)

\* onKeyDown for an event on the element whose default is not prevented.
\* key: "undo", "redo", "Enter", "Backspace", "Tab", "ShiftTab" or "char".
onKeyDown(M, key, repeat) ==
  IF M.disconnected THEN [M EXCEPT !.prevented = TRUE, !.unblock = TRUE]
  ELSE IF key \in {"undo", "redo"} THEN [undoRedo(M, key = "redo") EXCEPT !.prevented = TRUE]
  ELSE Eval(trackState(M, FALSE), LAMBDA M1 :
       Eval(getPosition(M1.t, M1.sel), LAMBDA pos :
       Eval( IF key = "Enter"
             THEN [insert(M1, <<NL>> \o Take(pos.content, IndentLen(pos.content)), 0)
                     EXCEPT !.prevented = TRUE]
             ELSE IF (~opts.plaintext \/ opts.indentation # 0) /\ key = "Backspace"
             THEN LET m == BlanklineMatch(pos.content, opts.indentation)
                      off == IF ~Collapsed(M1.sel) THEN 0
                             ELSE IF m # NoEnd THEN 0 - m ELSE -1
                  IN [insert(M1, <<>>, off) EXCEPT !.prevented = TRUE]
             ELSE IF opts.indentation # 0 /\ key \in {"Tab", "ShiftTab"}
             THEN LET start == pos.position - Len(pos.content)
                      content == toString(M1.t)
                      unit == Spaces(opts.indentation)
                      newContent ==
                        IF key = "ShiftTab"
                        THEN Take(content, start)
                             \o (IF IsPrefix(unit, pos.content)
                                 THEN Drop(pos.content, Len(unit)) ELSE pos.content)
                             \o Drop(content, start + Len(pos.content))
                        ELSE Take(content, start) \o unit \o Drop(content, start)
                  IN [update(M1, newContent) EXCEPT !.prevented = TRUE]
             ELSE M1, LAMBDA M2 :
         IF repeat THEN flushChanges(M2) ELSE M2)))

\* onKeyUp for an event that is neither prevented nor composing.
onKeyUp(M, isUndoRedo) ==
  flushChanges(IF ~isUndoRedo THEN trackState(M, FALSE) ELSE M)

\* onKeyUp without its first line: it never returns early.
onKeyUpEventNoSkip(M, skipped, isUndoRedo) == onKeyUp(M, isUndoRedo)

\* onKeyUp for any keyup event: skipped says the event's default is
\* prevented or the event is part of a composition (isComposing).
onKeyUpEvent(M, skipped, isUndoRedo) ==
  IF skipped THEN M ELSE onKeyUp(M, isUndoRedo)

onPaste(M, text) ==
  flushChanges(trackState(insert(trackState(M, TRUE), text, 0), TRUE))

onSelect(M, targetIsElement) ==
  [M EXCEPT !.position = IF targetIsElement THEN getPosition(M.t, M.sel) ELSE NoPos]

\* ------------------------------------------------------------- actions

\* The text the tree holds, without the separator toString appends.
TreeText(t) == toStringLoop(t, <<FirstChild(t, Root)>>, <<>>)

InitContents == {<<"a", NL, "a">>}
OptsSet == {[indentation |-> 0, plaintext |-> TRUE]}
PasteTexts == {<<"a">>}
UpdateContents == {<<NL>>}
TickSizes == {250}

Init ==
  /\ \E c \in InitContents : tree = RenderTree(c) /\ rendered = c /\ owner = c
  /\ sel = NewRange
  /\ pending = <<>>
  /\ observing = Off
  /\ queue = <<>>
  /\ disconnected = FALSE
  /\ position = NoPos
  /\ history = <<>>
  /\ historyAt = -1
  /\ sinceTrack = NoTs
  /\ sinceRecord = NoTs
  /\ enabled = FALSE
  /\ opts \in OptsSet
  /\ ev = [op |-> "init", out |-> <<>>, threw |-> FALSE, rolled |-> FALSE,
           unblock |-> FALSE, prevented |-> FALSE, flushes |-> <<>>, tracks |-> <<>>,
           cleared |-> 0]
  /\ snap = NoSnap
  /\ log = <<>>
  /\ passes = 0

\* How long the history may get in a step: MaxHist entries, or MaxHist more
\* than a full history; a longer history may not grow.
HistoryBound ==
  IF Len(history) >= HistCap THEN HistCap + MaxHist
  ELSE IF Len(history) > MaxHist THEN Len(history)
  ELSE MaxHist

\* A handler's result becomes the next state.
CommitTo(M, name) ==
  /\ Len(M.queue) + Len(M.recs) <= MaxQueue
  /\ Len(M.history) <= HistoryBound
  /\ Len(TreeText(M.t)) <= MaxLen
  /\ tree' = Collect(M.t, M.queue \o M.recs)
  /\ sel' = M.sel
  /\ pending' = M.recs
  /\ observing' = M.obs
  /\ queue' = M.queue
  /\ disconnected' = M.disconnected
  /\ position' = M.position
  /\ history' = M.history
  /\ historyAt' = M.historyAt
  /\ sinceTrack' = M.sinceTrack
  /\ sinceRecord' = M.sinceRecord
  /\ owner' = M.owner
  /\ ev' = [op |-> name, out |-> M.out, threw |-> M.threw, rolled |-> M.rolled,
            unblock |-> M.unblock, prevented |-> M.prevented, flushes |-> M.flushes,
            tracks |-> M.tracks, cleared |-> 0]
  /\ log' = IF M.rolled THEN <<>> ELSE log \o M.made
  /\ snap' = IF M.queue \o M.recs = <<>> THEN NoSnap
             ELSE IF queue \o pending = <<>> THEN tree
             ELSE snap
  /\ UNCHANGED <<rendered, enabled, opts, passes>>

Commit(M0, name) == \E M \in {M0} : CommitTo(M, name)

\* An event reaches a handler only once the records of earlier tasks have
\* been delivered (the observer's callback runs as a microtask).
Idle == enabled /\ pending = <<>>

\* The browser edits the tree itself: only while the hook lets keys through.
Editable == enabled /\ ~disconnected

\* It changes the data of a text node (a character typed or deleted at its
\* end) and puts the caret behind the change.
NativeSetData ==
  /\ Editable
  /\ \E n \in InTree(tree) \cap TextNodes :
       \E new \in {tree.data[n] \o <<"a">>} \cup {Take(tree.data[n], Len(tree.data[n]) - 1)} :
         /\ new # tree.data[n]
         /\ LET M == ReplaceData(Cur, n, 0, Len(tree.data[n]), new)
                caret == [n |-> n, o |-> Len(new)]
            IN Commit([M EXCEPT !.sel = [s |-> caret, e |-> caret]], "native")

\* It inserts a new text node or a <br> among the element's children.
NativeInsert ==
  /\ Editable
  /\ \E idx \in 0..Len(tree.kids[Root]) :
       \E n \in (IF FreeNodes(Cur) = {} THEN {} ELSE {Fresh(Cur)}) \cup (BrNodes \ InTree(tree)) :
         /\ n \notin NodesOfRecords(queue \o pending)
         /\ LET ref == IF idx < Len(tree.kids[Root]) THEN tree.kids[Root][idx + 1] ELSE None
                D0 == IF n \in TextNodes THEN [Cur EXCEPT !.t.data[n] = <<"a">>] ELSE Cur
                M == InsertNode(D0, n, Root, ref)
                caret == [n |-> Root, o |-> idx + 1]
            IN Commit([M EXCEPT !.sel = [s |-> caret, e |-> caret]], "native")

\* It removes a child of the element.
NativeRemove ==
  /\ Editable
  /\ \E n \in InTree(tree) : Commit(RemoveNode(Cur, n), "native")

\* It replaces all the element's children at once (select all and delete,
\* or a script setting textContent): one record holds them all.
NativeReplaceAll ==
  /\ Editable
  /\ tree.kids[Root] # <<>>
  /\ Commit(ReplaceAll(Cur, Root, <<>>), "native")

\* A callback that keeps the batch in place of the queue (state.queue =
\* batch, not push).
DeliverOverwrite ==
  /\ pending # <<>>
  /\ Commit([Cur EXCEPT !.queue = pending, !.recs = <<>>], "deliver")

\* The observer's callback: batch is pushed onto state.queue.
Deliver ==
  /\ pending # <<>>
  /\ Commit([Cur EXCEPT !.queue = @ \o pending, !.recs = <<>>], "deliver")

\* The user puts the caret at the start or at the end of the element.
Caret ==
  /\ Idle
  /\ \E o \in {0, Len(tree.kids[Root])} :
       LET bp == [n |-> Root, o |-> o] IN
       /\ sel # [s |-> bp, e |-> bp]
       /\ Commit([Cur EXCEPT !.sel = [s |-> bp, e |-> bp]], "caret")

\* The user selects everything.
SelectAll ==
  /\ pending = <<>>
  /\ tree.kids[Root] # <<>>
  /\ LET r == [s |-> [n |-> Root, o |-> 0], e |-> [n |-> Root, o |-> Len(tree.kids[Root])]] IN
     /\ sel # r
     /\ Commit([Cur EXCEPT !.sel = r], "caret")

\* A selectstart event.
Select ==
  /\ Idle
  /\ Commit(onSelect(Cur, TRUE), "select")

\* A selectstart event whose target is not the element.
SelectElsewhere ==
  /\ Idle
  /\ Commit(onSelect(Cur, FALSE), "select")

\* A keydown event on the element: undo (Ctrl/Cmd+Z).
Undo ==
  /\ Idle
  /\ Commit(onKeyDown(Cur, "undo", FALSE), "undo")

\* Redo (Ctrl/Cmd+Shift+Z, Ctrl+Y).
Redo ==
  /\ Idle
  /\ Commit(onKeyDown(Cur, "redo", FALSE), "redo")

\* The keydown of a character key, held down (repeat) or not; the browser's
\* own edit follows as a native mutation.
KeyDown ==
  /\ Idle
  /\ \E repeat \in BOOLEAN : Commit(onKeyDown(Cur, "char", repeat), "keydown")

\* A keyup event that is neither prevented nor composing.
KeyUp ==
  /\ Idle
  /\ Commit(onKeyUp(Cur, FALSE), "keyup")

\* The keyup of an undo/redo chord: it flushes without a snapshot attempt.
KeyUpUndoRedo ==
  /\ Idle
  /\ Commit(onKeyUp(Cur, TRUE), "keyup")

Paste ==
  /\ Idle
  /\ \E text \in PasteTexts :
       /\ Cardinality(FreeNodes(Cur)) >= 2
       /\ Commit(onPaste(Cur, text), "paste")

\* The owner calls edit.update(content).
Update ==
  /\ pending = <<>>
  /\ \E content \in UpdateContents : Commit(update(Cur, content), "update")

\* Time passes.
Pause ==
  /\ \E d \in TickSizes :
       /\ sinceTrack # NoTs \/ sinceRecord # NoTs
       /\ sinceTrack' = IF sinceTrack = NoTs THEN NoTs
                        ELSE IF sinceTrack + d >= Debounce THEN Debounce ELSE sinceTrack + d
       /\ sinceRecord' = IF sinceRecord = NoTs THEN NoTs
                         ELSE IF sinceRecord + d >= Debounce THEN Debounce ELSE sinceRecord + d
       /\ <<sinceTrack', sinceRecord'>> # <<sinceTrack, sinceRecord>>
  /\ ev' = [op |-> "pause", out |-> <<>>, threw |-> FALSE, rolled |-> FALSE,
            unblock |-> FALSE, prevented |-> FALSE, flushes |-> <<>>, tracks |-> <<>>,
           cleared |-> 0]
  /\ UNCHANGED <<tree, sel, pending, observing, queue, disconnected, position, history,
                 historyAt, rendered, owner, enabled, opts, snap, log, passes>>

\* What snap holds once a render pass has run over records still queued.
StaleSnap == [NoSnap EXCEPT !.kids = [c \in Containers |-> <<None, None>>]]

\* The first layout effect forgetting state.disconnected = false.
layoutEffectNoReset(D, en) ==
  IF ~en THEN D ELSE [D EXCEPT !.obs = observerSettings]

\* The first layout effect, after its cleanup: with the element attached and
\* the hook enabled it observes again and restores the selection.
layoutEffect(D, en) ==
  IF ~en THEN D
  ELSE [D EXCEPT !.disconnected = FALSE, !.obs = observerSettings,
           !.sel = IF D.position # NoPos
                   THEN makeRange(D.t, D.position.position,
                                  D.position.position + D.position.extent)
                   ELSE @]

\* The second layout effect without the reset of the history.
historyEffectNoClear(D, en) ==
  IF en = enabled THEN D
  ELSE IF ~en THEN D
  ELSE [D EXCEPT !.sinceTrack = NoTs]

\* The second layout effect, run when the element or disabled changes.
historyEffect(D, en) ==
  IF en = enabled THEN D
  ELSE IF ~en THEN [D EXCEPT !.history = <<>>, !.historyAt = -1, !.sinceRecord = NoTs]
  ELSE [D EXCEPT !.sinceTrack = NoTs]

\* A render pass whose layout effects do not run: the commit alone.
renderPassCommitOnly(M, en) ==
  [Patch([M EXCEPT !.obs = Off], Chunks(rendered), Chunks(M.owner), 1)
     EXCEPT !.obs = Off, !.recs = <<>>]

\* What a render pass makes of M: the renderer commits the owner's content
\* (what the observer records of it, the cleanup drops), the cleanup of the
\* previous pass disconnects the observer, and the layout effects run.
renderPass(M, en) ==
  LET D1 == Patch([M EXCEPT !.obs = Off], Chunks(rendered), Chunks(M.owner), 1)
      D2 == [D1 EXCEPT !.obs = Off, !.recs = <<>>]
  IN historyEffect(layoutEffect(D2, en), en)

\* A render pass: the renderer commits the owner's content, then the
\* layout effects run (the cleanup of the previous pass first).
RenderPass(en) ==
  /\ pending = <<>>
  /\ passes < MaxPasses
  /\ passes' = passes + 1
  /\ LET D4 == renderPass(Cur, en)
     IN /\ Len(TreeText(D4.t)) <= MaxLen
        /\ tree' = Collect(D4.t, D4.queue)
        /\ sel' = D4.sel
        /\ pending' = <<>>
        /\ observing' = D4.obs
        /\ queue' = D4.queue
        /\ disconnected' = D4.disconnected
        /\ position' = D4.position
        /\ history' = D4.history
        /\ historyAt' = D4.historyAt
        /\ sinceTrack' = D4.sinceTrack
        /\ sinceRecord' = D4.sinceRecord
        /\ rendered' = owner
        /\ enabled' = en
        /\ ev' = [op |-> IF en THEN "render" ELSE "render-off", out |-> <<>>,
                  threw |-> FALSE, rolled |-> FALSE, unblock |-> FALSE,
                  prevented |-> FALSE, flushes |-> <<>>, tracks |-> <<>>,
                  cleared |-> Len(history) - Len(D4.history)]
        /\ snap' = IF D4.queue = <<>> THEN NoSnap ELSE StaleSnap
        /\ UNCHANGED <<owner, opts, log>>

\* A render pass with the element attached and the hook enabled.
Render == RenderPass(TRUE)

\* A render pass with the hook disabled (or the element gone).
Disable == RenderPass(FALSE)

\* The reconciler: native edits, their delivery, the flush and the render
\* passes around them.
Next ==
  \/ NativeSetData
  \/ NativeInsert
  \/ NativeRemove
  \/ NativeReplaceAll
  \/ Deliver
  \/ Caret
  \/ KeyUpUndoRedo
  \/ Render
  \/ Disable

Spec == Init /\ [][Next]_vars

\* Paste and the flush next to native typing.
NextPaste ==
  \/ NativeSetData
  \/ Deliver
  \/ Caret
  \/ KeyUpUndoRedo
  \/ Paste
  \/ Render

SpecPaste == Init /\ [][NextPaste]_vars

\* The owner's update() next to native typing and paste.
NextEdit ==
  \/ NativeSetData
  \/ Deliver
  \/ KeyUpUndoRedo
  \/ Update
  \/ Paste
  \/ Render

SpecEdit == Init /\ [][NextEdit]_vars

\* The history: snapshot attempts at key events, and time.
NextHistory ==
  \/ NativeSetData
  \/ Deliver
  \/ Select
  \/ KeyUp
  \/ Pause
  \/ Render

SpecHistory == Init /\ [][NextHistory]_vars

\* Undo and redo between typing, flushes and render passes.
NextUndo ==
  \/ NativeSetData
  \/ Deliver
  \/ Select
  \/ KeyUp
  \/ Undo
  \/ Redo
  \/ Render

SpecUndo == Init /\ [][NextUndo]_vars

\* Snapshot attempts, forced (paste) and unforced (keyup), and time.
NextRecord ==
  \/ NativeSetData
  \/ Deliver
  \/ KeyUp
  \/ Paste
  \/ Pause
  \/ Render

SpecRecord == Init /\ [][NextRecord]_vars

\* A session whose history is full: HistCap snapshots were recorded, of the
\* contents FullA and FullB in turn (a character typed at the end of the
\* line and deleted again, a keyup after each), the last one of FullB, which
\* the owner has rendered.
FullA == <<"a", NL>>
FullB == <<"a", "a", NL>>
FullEntry(c) ==
  [pos |-> [position |-> Len(c) - 1, extent |-> 0, content |-> Take(c, Len(c) - 1),
            line |-> 0],
   text |-> c]
FullHistory == [k \in 1..HistCap |-> IF k % 2 = 1 THEN FullEntry(FullA) ELSE FullEntry(FullB)]

InitFull ==
  /\ tree = RenderTree(FullB) /\ rendered = FullB /\ owner = FullB
  /\ sel = makeRange(RenderTree(FullB), Len(FullB) - 1, Len(FullB) - 1)
  /\ pending = <<>>
  /\ observing = observerSettings
  /\ queue = <<>>
  /\ disconnected = FALSE
  /\ position = FullEntry(FullB).pos
  /\ history = FullHistory
  /\ historyAt = HistCap - 1
  /\ sinceTrack = NoTs
  /\ sinceRecord = 0
  /\ enabled = TRUE
  /\ opts \in OptsSet
  /\ ev = [op |-> "render", out |-> <<>>, threw |-> FALSE, rolled |-> FALSE,
           unblock |-> FALSE, prevented |-> FALSE, flushes |-> <<>>, tracks |-> <<>>,
           cleared |-> 0]
  /\ snap = NoSnap
  /\ log = <<>>
  /\ passes = 1

\* Typing, snapshots, undo and redo on a full history.
NextFull ==
  \/ NativeSetData
  \/ Deliver
  \/ KeyUp
  \/ Undo
  \/ Redo
  \/ Render

SpecFull == InitFull /\ [][NextFull]_vars

\* A session whose history is [A, B, C] with the current index at 2: the
\* snapshots of an empty line, of "a" and of "aa", the last of which the
\* owner has rendered.
EntryA == FullEntry(<<NL>>)
EntryB == FullEntry(<<"a", NL>>)
EntryC == FullEntry(<<"a", "a", NL>>)

InitABC ==
  /\ tree = RenderTree(EntryC.text) /\ rendered = EntryC.text /\ owner = EntryC.text
  /\ sel = makeRange(RenderTree(EntryC.text), EntryC.pos.position, EntryC.pos.position)
  /\ pending = <<>>
  /\ observing = observerSettings
  /\ queue = <<>>
  /\ disconnected = FALSE
  /\ position = EntryC.pos
  /\ history = <<EntryA, EntryB, EntryC>>
  /\ historyAt = 2
  /\ sinceTrack = NoTs
  /\ sinceRecord = 0
  /\ enabled = TRUE
  /\ opts \in OptsSet
  /\ ev = [op |-> "render", out |-> <<>>, threw |-> FALSE, rolled |-> FALSE,
           unblock |-> FALSE, prevented |-> FALSE, flushes |-> <<>>, tracks |-> <<>>,
           cleared |-> 0]
  /\ snap = NoSnap
  /\ log = <<>>
  /\ passes = 0

\* Undo and redo chords (keydown, then keyup) with render passes between.
NextABC ==
  \/ Caret
  \/ Undo
  \/ Redo
  \/ KeyUpUndoRedo
  \/ Render

SpecABC == InitABC /\ [][NextABC]_vars

\* Disabling and enabling again between typing, snapshots, undo and redo.
NextDetach ==
  \/ NativeSetData
  \/ Deliver
  \/ Select
  \/ KeyUp
  \/ Undo
  \/ Redo
  \/ Render
  \/ Disable

SpecDetach == Init /\ [][NextDetach]_vars

\* Trees of every kind the element may hold: no node at all, text leaves
\* (empty ones, and ones that end with one or two separators), a <br>
\* before, between and after leaves, and a nested element with leaves and a
\* <br> of its own.
TreeShapes ==
  { [root |-> <<>>, span |-> <<>>],
    [root |-> <<1>>, span |-> <<>>],
    [root |-> <<1, 2>>, span |-> <<>>],
    [root |-> <<5>>, span |-> <<>>],
    [root |-> <<1, 5>>, span |-> <<>>],
    [root |-> <<5, 1>>, span |-> <<>>],
    [root |-> <<1, 5, 2>>, span |-> <<>>],
    [root |-> <<6>>, span |-> <<>>],
    [root |-> <<6>>, span |-> <<1>>],
    [root |-> <<6>>, span |-> <<1, 5>>],
    [root |-> <<1, 6>>, span |-> <<2>>],
    [root |-> <<6, 2>>, span |-> <<1>>] }
TreeLeaves == {<<>>, <<"a">>, <<NL>>, <<"a", NL>>, <<NL, NL>>}

TreeOf(shape, d) ==
  [kids |-> [c \in Containers |-> IF c = Root THEN shape.root ELSE shape.span],
   data |-> [n \in TextNodes |->
               IF n \in Range(shape.root) \cup Range(shape.span) THEN d[n] ELSE <<>>]]

TreeSet ==
  { t \in {TreeOf(shape, d) : shape \in TreeShapes, d \in [OwnedNodes -> TreeLeaves]} :
      Len(TreeText(t)) <= MaxLen }

InitTrees ==
  /\ tree \in TreeSet
  /\ rendered = TreeText(tree) /\ owner = TreeText(tree)
  /\ sel = NewRange
  /\ pending = <<>>
  /\ observing = observerSettings
  /\ queue = <<>>
  /\ disconnected = FALSE
  /\ position = NoPos
  /\ history = <<>>
  /\ historyAt = -1
  /\ sinceTrack = NoTs
  /\ sinceRecord = NoTs
  /\ enabled = TRUE
  /\ opts \in OptsSet
  /\ ev = [op |-> "render", out |-> <<>>, threw |-> FALSE, rolled |-> FALSE,
           unblock |-> FALSE, prevented |-> FALSE, flushes |-> <<>>, tracks |-> <<>>,
           cleared |-> 0]
  /\ snap = NoSnap
  /\ log = <<>>
  /\ passes = 1

\* The user puts the caret at any boundary point of the element: in a text
\* leaf, between the nodes of a container, in a <br>.
CaretAt ==
  /\ pending = <<>>
  /\ \E bp \in Range(Walk(tree, Root)) :
       /\ sel # [s |-> bp, e |-> bp]
       /\ Commit([Cur EXCEPT !.sel = [s |-> bp, e |-> bp]], "caret")

\* The owner calls edit.move with a number from 0 to the text's length.
Move ==
  /\ pending = <<>>
  /\ \E o \in 0..Len(toString(tree)) :
       Commit(move(Cur, [row |-> NoEnd, column |-> o]), "move")

\* Carets, edit.move, selectstart events and snapshots on a tree at rest.
NextTrees ==
  \/ CaretAt
  \/ Move
  \/ Select
  \/ KeyUp

SpecTrees == InitTrees /\ [][NextTrees]_vars

\* The edit operations on an element at rest: the trees the renderer makes
\* for a few contents, and two trees with a <br> the browser left behind;
\* the hook is enabled (the observer records what the operations change)
\* or disabled (edit works all the same, unobserved).
OpsContents == {<<>>, <<" ">>, <<"a", "b">>, <<"a", NL, "b">>}
OpsTrees ==
  {RenderTree(c) : c \in OpsContents}
    \cup {TreeOf([root |-> <<1, 5>>, span |-> <<>>], [n \in OwnedNodes |-> <<"a">>]),
          TreeOf([root |-> <<5, 1>>, span |-> <<>>], [n \in OwnedNodes |-> <<"a">>])}
InsertTexts == {<<"X">>}
DeleteOffsets == {-2, -1, 0, 1, 2}
OpsUpdates == {<<NL>>, <<"b", NL>>, <<"X", "a", "b", NL>>}
MoveRows == {0, 1, 2}
MoveColumns == {0, 1}

InitOps ==
  /\ tree \in OpsTrees
  /\ rendered = TreeText(tree) /\ owner = TreeText(tree)
  /\ sel = NewRange
  /\ pending = <<>>
  /\ enabled \in BOOLEAN
  /\ observing = IF enabled THEN observerSettings ELSE Off
  /\ queue = <<>>
  /\ disconnected = FALSE
  /\ position = NoPos
  /\ history = <<>>
  /\ historyAt = -1
  /\ sinceTrack = NoTs
  /\ sinceRecord = NoTs
  /\ opts \in OptsSet
  /\ ev = [op |-> "render", out |-> <<>>, threw |-> FALSE, rolled |-> FALSE,
           unblock |-> FALSE, prevented |-> FALSE, flushes |-> <<>>, tracks |-> <<>>,
           cleared |-> 0]
  /\ snap = NoSnap
  /\ log = <<>>
  /\ passes = 1

\* The selection leaves the element: it collapses before or after it in the
\* document (a click elsewhere on the page).
SelectOutside ==
  /\ pending = <<>>
  /\ \E o \in {0, 1} :
       LET bp == [n |-> Doc, o |-> o] IN
       /\ sel # [s |-> bp, e |-> bp]
       /\ Commit([Cur EXCEPT !.sel = [s |-> bp, e |-> bp]], "caret")

\* The owner calls edit.insert(text, deleteOffset).
Insert ==
  /\ pending = <<>>
  /\ Cardinality(FreeNodes(Cur)) >= 2
  /\ \E text \in InsertTexts \cup {<<>>}, deleteOffset \in DeleteOffsets :
       Commit(insert(Cur, text, deleteOffset), "insert")

\* The owner calls edit.update(content) with any content.
UpdateAny ==
  /\ pending = <<>>
  /\ \E content \in OpsUpdates : Commit(update(Cur, content), "update")

\* The owner calls edit.move with a row and a column.
MoveToLine ==
  /\ pending = <<>>
  /\ \E row \in MoveRows, column \in MoveColumns :
       Commit(move(Cur, [row |-> row, column |-> column]), "move")

\* The keydown of Enter on the element.
Enter ==
  /\ Idle
  /\ Cardinality(FreeNodes(Cur)) >= 2
  /\ Commit(onKeyDown(Cur, "Enter", FALSE), "enter")

\* edit.insert and Enter between carets and selections.
NextOps ==
  \/ CaretAt
  \/ SelectAll
  \/ Insert
  \/ Enter
  \/ Deliver

SpecOps == InitOps /\ [][NextOps]_vars

\* edit.update and edit.move between carets inside and outside the element.
NextCaret ==
  \/ CaretAt
  \/ SelectOutside
  \/ UpdateAny
  \/ Move
  \/ MoveToLine

SpecCaret == InitOps /\ [][NextCaret]_vars


\* ------------------------------------------------------ unobserved changes
\* While the observer is disconnected (the hook disabled, or a flush done
\* and the next layout effect not yet run) a script or the browser can
\* change the tree and no record is made; state.queue keeps the records it
\* holds. The element starts with a text leaf and an empty nested element.
RollbackTrees == {TreeOf([root |-> <<1, 6>>, span |-> <<>>], [n \in OwnedNodes |-> <<"a">>])}

InitRollback ==
  /\ tree \in RollbackTrees
  /\ rendered = TreeText(tree) /\ owner = TreeText(tree)
  /\ sel = NewRange
  /\ pending = <<>>
  /\ observing = observerSettings
  /\ queue = <<>>
  /\ disconnected = FALSE
  /\ position = NoPos
  /\ history = <<>>
  /\ historyAt = -1
  /\ sinceTrack = NoTs
  /\ sinceRecord = NoTs
  /\ enabled = TRUE
  /\ opts \in OptsSet
  /\ ev = [op |-> "render", out |-> <<>>, threw |-> FALSE, rolled |-> FALSE,
           unblock |-> FALSE, prevented |-> FALSE, flushes |-> <<>>, tracks |-> <<>>,
           cleared |-> 0]
  /\ snap = NoSnap
  /\ log = <<>>
  /\ passes = 1

\* A child of the element is detached while nothing observes.
UnobservedRemove ==
  /\ observing = Off
  /\ pending = <<>>
  /\ \E n \in Range(tree.kids[Root]) \ ElNodes :
       Commit(RemoveNode(Cur, n), "script")

\* A child of the element is moved into the nested element while nothing
\* observes.
UnobservedMove ==
  /\ observing = Off
  /\ pending = <<>>
  /\ \E n \in Range(tree.kids[Root]) \ ElNodes :
       \E c \in Range(tree.kids[Root]) \cap ElNodes :
         Commit(InsertNode(RemoveNode(Cur, n), n, c, None), "script")

NextRollback ==
  \/ NativeInsert
  \/ Deliver
  \/ KeyUp
  \/ UnobservedRemove
  \/ UnobservedMove
  \/ Render
  \/ Disable

SpecRollback == InitRollback /\ [][NextRollback]_vars


\* ------------------------------------------------------ keys
\* The keys a keydown event may carry (Enter has an action of its own).
Keys == {"char", "Backspace", "undo", "redo"}

\* A keydown event on the element, with any key, at any time the hook is
\* enabled: also between a flush and the next render pass.
KeyDownAny ==
  /\ Idle
  /\ \E key \in Keys, repeat \in BOOLEAN :
       Commit(onKeyDown(Cur, key, repeat), "keydown")

NextKeys ==
  \/ NativeSetData
  \/ Deliver
  \/ KeyDownAny
  \/ KeyUp
  \/ Render

SpecKeys == Init /\ [][NextKeys]_vars


\* ------------------------------------------------------ indentation
\* The options that make the hook handle Backspace and Tab itself: no
\* plaintext-only support (indentation unset), or an indentation of one or
\* two spaces.
IndentOpts == {[indentation |-> 0, plaintext |-> FALSE],
               [indentation |-> 1, plaintext |-> TRUE],
               [indentation |-> 2, plaintext |-> TRUE]}
IndentContents == {<<NL>>, <<"a", NL>>, <<" ", "a", NL>>, <<" ", " ", NL>>,
                   <<" ", " ", "a">>, <<"a", NL, " ">>}

InitIndent ==
  /\ \E c \in IndentContents : tree = RenderTree(c) /\ rendered = c /\ owner = c
  /\ sel = NewRange
  /\ pending = <<>>
  /\ observing = observerSettings
  /\ queue = <<>>
  /\ disconnected = FALSE
  /\ position = NoPos
  /\ history = <<>>
  /\ historyAt = -1
  /\ sinceTrack = NoTs
  /\ sinceRecord = NoTs
  /\ enabled = TRUE
  /\ opts \in IndentOpts
  /\ ev = [op |-> "render", out |-> <<>>, threw |-> FALSE, rolled |-> FALSE,
           unblock |-> FALSE, prevented |-> FALSE, flushes |-> <<>>, tracks |-> <<>>,
           cleared |-> 0]
  /\ snap = NoSnap
  /\ log = <<>>
  /\ passes = 1

\* A keydown of Backspace, not held down.
Backspace ==
  /\ Idle
  /\ Cardinality(FreeNodes(Cur)) >= 2
  /\ Commit(onKeyDown(Cur, "Backspace", FALSE), "backspace")

\* A keydown of Tab, not held down.
Tab ==
  /\ Idle
  /\ Commit(onKeyDown(Cur, "Tab", FALSE), "tab")

\* A keydown of Shift+Tab, not held down.
ShiftTab ==
  /\ Idle
  /\ Commit(onKeyDown(Cur, "ShiftTab", FALSE), "shifttab")

\* Backspace on a tree at rest, and on what Backspace left.
NextBackspace ==
  \/ CaretAt
  \/ Backspace
  \/ Deliver

SpecBackspace == InitIndent /\ [][NextBackspace]_vars

\* Tab and Shift+Tab, the owner rendering what they emit.
NextTab ==
  \/ CaretAt
  \/ Tab
  \/ ShiftTab
  \/ Render

SpecTab == InitIndent /\ [][NextTab]_vars


\* ------------------------------------------------------ composition
\* A keyup event during a composition, or one whose default is prevented.
KeyUpComposing ==
  /\ Idle
  /\ \E isUndoRedo \in BOOLEAN :
       Commit(onKeyUpEvent(Cur, TRUE, isUndoRedo), "keyup-composing")

\* The browser composes text (data changes, new nodes) between keyups that
\* are skipped and keyups that are not.
NextCompose ==
  \/ NativeSetData
  \/ NativeInsert
  \/ Deliver
  \/ KeyUpComposing
  \/ KeyUp
  \/ Render

SpecCompose == Init /\ [][NextCompose]_vars


\* ------------------------------------------------------ emissions
\* Every way onChange is called, in a session that holds three snapshots:
\* a flush (the keyup of a chord), undo and redo, and update.
NextEmit ==
  \/ NativeSetData
  \/ Deliver
  \/ Undo
  \/ Redo
  \/ KeyUpUndoRedo
  \/ Update
  \/ Render

SpecEmit == InitABC /\ [][NextEmit]_vars


\* ------------------------------------------------------ the blocked state
\* The render pass the owner owes the hook while the session is blocked:
\* after onChange or after the dummy state change of unblock, with the
\* element attached and the hook enabled. It is not counted: the owner
\* renders as often as it is asked to.
Rerender ==
  /\ enabled
  /\ disconnected
  /\ pending = <<>>
  /\ \E D4 \in {renderPass(Cur, TRUE)} :
        /\ tree' = Collect(D4.t, D4.queue)
        /\ sel' = D4.sel
        /\ pending' = <<>>
        /\ observing' = D4.obs
        /\ queue' = D4.queue
        /\ disconnected' = D4.disconnected
        /\ position' = D4.position
        /\ history' = D4.history
        /\ historyAt' = D4.historyAt
        /\ sinceTrack' = D4.sinceTrack
        /\ sinceRecord' = D4.sinceRecord
        /\ rendered' = owner
        /\ ev' = [op |-> "rerender", out |-> <<>>, threw |-> FALSE, rolled |-> FALSE,
                  unblock |-> FALSE, prevented |-> FALSE, flushes |-> <<>>,
                  tracks |-> <<>>, cleared |-> 0]
        /\ snap' = IF D4.queue = <<>> THEN NoSnap ELSE StaleSnap
        /\ UNCHANGED <<owner, opts, log, enabled, passes>>

NextLive ==
  \/ KeyDownAny
  \/ KeyUpUndoRedo
  \/ Update
  \/ Rerender

\* The owner renders whenever the session is blocked: every emission and
\* every unblock request is followed by a render pass.
SpecLive == InitABC /\ [][NextLive]_vars /\ WF_vars(Rerender)

\* ----------------------------------------------------------- properties
\* The children of the element in order: the data of a text leaf, a marker
\* for a <br>.  Two trees with the same leaves have the same order, text
\* values and node count, whatever the identity of their nodes.
Leaves(t) ==
  [i \in 1..Len(t.kids[Root]) |->
     IF t.kids[Root][i] \in TextNodes THEN t.data[t.kids[Root][i]] ELSE <<"<br>">>]

\* Whether snap holds the tree from before the mutations now in the queue.
HasSnap == snap # NoSnap /\ snap # StaleSnap

\* C1 (rollback exactness): after a flush that rolled mutations back, the
\* tree's order, text values and node count equal those of the tree before
\* the first of these mutations.
C1_RollbackExact ==
  [][(ev'.rolled /\ ~ev'.threw /\ HasSnap) => Leaves(tree') = Leaves(snap)]_vars

\* C2: whenever onChange is invoked (by a flush, by undo/redo or by
\* update()) the tree is the tree the renderer last produced.
C2_TreeRenderedAtChange ==
  \A i \in 1..Len(ev.out) : ev.out[i].inSync

\* What the calls of flushChanges in the last step met and did.
Flushes == {ev.flushes[i] : i \in 1..Len(ev.flushes)}

C4_RemovedOrderRestored ==
  [][(ev'.rolled /\ ~ev'.threw) =>
       \A k \in 1..Len(queue \o pending) :
         LET m == (queue \o pending)[k]
             kids == KidsOf(tree', m.target)
         IN \A i, j \in 1..Len(m.removed) :
              (i < j /\ m.removed[i] \in Range(kids) /\ m.removed[j] \in Range(kids))
                => IndexOf(kids, m.removed[i]) < IndexOf(kids, m.removed[j])]_vars

\* C5: a flush that rolls back disconnects the observer before its first
\* write and the observer stays disconnected until the next render pass:
\* after the flush the observer is off, the disconnected flag is set, no
\* record of the rollback's own writes is pending or queued and the queue
\* is empty; only a render pass turns the observer on or the flag off.
C5_DisconnectedThroughRollback ==
  /\ [](ev.rolled =>
          /\ observing = Off
          /\ disconnected
          /\ pending = <<>>
          /\ (~ev.threw => queue = <<>>))
  /\ [][((observing = Off /\ observing' # Off) \/ (disconnected /\ ~disconnected'))
          => ev'.op = "render"]_vars

\* A keyup whose flush rolled back, emitted and left the observer off.
C5_Witness ==
  /\ ev.op = "keyup"
  /\ ev.rolled
  /\ Len(ev.out) = 1
  /\ observing = Off
  /\ disconnected
  /\ queue = <<>>

C7_BlockedInputDropped ==
  [][(enabled /\ disconnected /\ ev'.op = "paste")
       => (Leaves(tree') = Leaves(tree) /\ ev'.out = <<>>)]_vars

\* C8: a render pass with the element attached and the hook enabled clears
\* the disconnected flag and leaves the observer observing the element for
\* text changes with their prior values, child-list changes and the whole
\* subtree; a render pass with the hook disabled (or the element missing)
\* does neither: the flag keeps its value and the observer observes nothing.
C8_RenderReentersObserving ==
  [][/\ ev'.op = "render" =>
          /\ ~disconnected'
          /\ observing' = [characterData |-> TRUE, characterDataOldValue |-> TRUE,
                           childList |-> TRUE, subtree |-> TRUE]
     /\ ev'.op = "render-off" =>
          /\ disconnected' = disconnected
          /\ observing' = Off]_vars

\* A render pass has re-entered observing after a flush had disconnected.
C8_Witness ==
  /\ ev.op = "render"
  /\ passes >= 2
  /\ rendered # <<"a", NL, "a">>
  /\ ~disconnected
  /\ observing = observerSettings

\* C9: after a flush or an undo/redo has emitted (text, position) and the
\* renderer has rendered that text, the render pass sets the selection to
\* the range of the last known position, so that reading the position back
\* from the tree gives the emitted offset.
C9_CaretRestoredAfterRender ==
  [][(ev'.op = "render" /\ ev.op \in {"keyup", "paste", "undo", "redo"} /\ Len(ev.out) = 1)
       => getPosition(tree', sel').position = ev.out[1].position.position]_vars

\* C10 (history debounce): an unforced snapshot attempt is a no-op when less
\* than 500 ms have passed since the last recorded snapshot, so that of
\* attempts at t = 0, 100, 200 and 600 with distinct content only those at
\* 0 and 600 are kept.
C10_DebounceWindow ==
  [][(ev'.op = "keyup" /\ sinceRecord # NoTs /\ sinceRecord < Debounce)
       => (history' = history /\ historyAt' = historyAt)]_vars

\* The snapshot attempts of the last step.
Tracks == {ev.tracks[k] : k \in 1..Len(ev.tracks)}

\* C11: a snapshot attempt, forced or not, whose content equals the content
\* of the entry at the current history index leaves the history sequence
\* and the current index unchanged.
C11_SameContentNoRecord == \A tr \in Tracks : tr.same => tr.kept

\* A paste whose first (forced) attempt met the content of the current
\* entry, in a history that holds an entry.
C11_Witness ==
  /\ ev.op = "paste"
  /\ Len(ev.tracks) = 2
  /\ ev.tracks[1].force /\ ev.tracks[1].same /\ ev.tracks[1].kept
  /\ history # <<>>

C13_AtMostCapEntries == Len(history) <= HistCap

\* C14: undo and redo clamp at the history boundaries.  An undo at the first
\* entry and a redo at the last entry emit nothing and leave the index and
\* the history as they are; an undo or redo that the handler lets through
\* elsewhere, onto an entry, moves the index by one and emits that entry, so that
\* from [A, B, C] at index 2 three undos end with A last emitted and two
\* further redos with C last emitted.
C14_UndoRedoClamp ==
  /\ [][ev'.op = "undo" /\ historyAt = 0 /\ history # <<>>
        => ev'.out = <<>> /\ historyAt' = 0 /\ history' = history /\ owner' = owner]_vars
  /\ [][ev'.op = "redo" /\ historyAt = Len(history) - 1 /\ history # <<>>
        => ev'.out = <<>> /\ historyAt' = historyAt /\ history' = history
           /\ owner' = owner]_vars
  /\ [][ev'.op = "undo" /\ ~disconnected /\ historyAt > 0
          /\ HistoryGet(history, historyAt - 1) # Hole
        => historyAt' = historyAt - 1 /\ history' = history
           /\ Len(ev'.out) = 1 /\ owner' = HistoryGet(history, historyAt - 1).text]_vars
  /\ [][ev'.op = "redo" /\ ~disconnected /\ historyAt < Len(history) - 1
          /\ HistoryGet(history, historyAt + 1) # Hole
        => historyAt' = historyAt + 1 /\ history' = history
           /\ Len(ev'.out) = 1 /\ owner' = HistoryGet(history, historyAt + 1).text]_vars

\* The third undo from [A, B, C] at index 2: A was emitted and rendered, and
\* the undo at the first entry was let through and emitted nothing.
C14_Witness ==
  /\ ev.op = "undo" /\ ~ev.unblock /\ ev.out = <<>>
  /\ historyAt = 0
  /\ history = <<EntryA, EntryB, EntryC>>
  /\ owner = EntryA.text /\ rendered = EntryA.text

\* What an undo or redo onto the entry at index at does: onChange once with
\* the entry's text and position, state.position the entry's position, the
\* observer disconnected and the flag set, no snapshot attempt, the history
\* as it was and the index at at.
EmitsEntry(at) ==
  /\ Len(ev'.out) = 1
  /\ ev'.out[1].text = HistoryGet(history, at).text
  /\ ev'.out[1].position = HistoryGet(history, at).pos
  /\ position' = HistoryGet(history, at).pos
  /\ observing' = Off /\ pending' = <<>>
  /\ disconnected'
  /\ ev'.tracks = <<>>
  /\ history' = history
  /\ historyAt' = at

\* C15: an undo or redo that moves the index to an existing entry invokes
\* onChange exactly once with that entry's text and position, sets the last
\* known position to the entry's position, disconnects the observer and sets
\* the disconnected flag; it records no snapshot and leaves the history
\* sequence unchanged.
C15_UndoRedoEmitsEntry ==
  /\ [][ev'.op = "undo" /\ ~disconnected /\ HistoryGet(history, historyAt - 1) # Hole
        => EmitsEntry(historyAt - 1)]_vars
  /\ [][ev'.op = "redo" /\ ~disconnected /\ HistoryGet(history, historyAt + 1) # Hole
        => EmitsEntry(historyAt + 1)]_vars

\* A redo has moved back onto the second of two entries and emitted it, the
\* caret then being somewhere else than in the entry.
C15_Witness ==
  /\ ev.op = "redo" /\ Len(ev.out) = 1
  /\ Len(history) = 2 /\ historyAt = 1 /\ history[1] # Hole
  /\ ev.out[1].text = history[2].text
  /\ position = history[2].pos
  /\ getPosition(tree, sel) # history[2].pos
  /\ disconnected /\ observing = Off

\* C16: whenever the session is disabled (or the element detached), the
\* history is cleared once the effect for that state has run: the history
\* sequence is empty and the current index is -1, and an undo or redo on
\* the cleared history emits nothing.
C16_HistoryClearedOnDisable ==
  /\ [](~enabled => history = <<>> /\ historyAt = -1)
  /\ [][ev'.op \in {"undo", "redo"} /\ history = <<>> => ev'.out = <<>>]_vars

\* A render pass has disabled the session while the history held entries:
\* they are gone.
C16_Witness ==
  /\ ev.op = "render-off"
  /\ ev.cleared > 0
  /\ ~enabled /\ history = <<>> /\ historyAt = -1

\* C17: detaching (disable or unmount) clears the pending mutation queue as
\* well as the history: while the session is disabled the queue is empty,
\* and a render pass that enables the session starts it with an empty queue.
C17_QueueClearedOnDetach ==
  /\ [](~enabled => queue = <<>>)
  /\ [][~enabled /\ enabled' => queue' = <<>>]_vars

\* C18 (as stated): for every tree, the empty tree and the trees whose last
\* leaf ends with one or more separators included, the text toString returns
\* ends with exactly one line separator; so does the text of every snapshot
\* taken of the tree.
C18_EndsWithExactlyOneSeparator ==
  LET s == toString(tree) IN
  /\ s # <<>> /\ s[Len(s)] = NL
  /\ Len(s) > 1 => s[Len(s) - 1] # NL
  /\ \A i \in 1..Len(history) :
       history[i] # Hole =>
         LET h == history[i].text IN
         /\ h # <<>> /\ h[Len(h)] = NL
         /\ Len(h) > 1 => h[Len(h) - 1] # NL

\* C18 (amended): for every tree, the text toString returns ends with at
\* least one line separator: it is the text of the leaves with one separator
\* per <br>, followed by one more separator only if that text is empty or
\* does not end with one; every snapshot's text ends with a separator too.
C18_EndsWithSeparator ==
  LET raw == TreeText(tree)
      s == toString(tree)
  IN /\ s # <<>> /\ s[Len(s)] = NL
     /\ s = IF raw # <<>> /\ raw[Len(raw)] = NL THEN raw ELSE raw \o <<NL>>
     /\ \A i \in 1..Len(history) :
          history[i] # Hole => history[i].text # <<>> /\ history[i].text[Len(history[i].text)] = NL

\* A keyup has taken a snapshot of a tree whose text ends with two
\* separators: the snapshot's text is that text, and ends with both.
C18_Witness ==
  LET raw == TreeText(tree) IN
  /\ ev.op = "keyup"
  /\ Len(raw) >= 2 /\ raw[Len(raw)] = NL /\ raw[Len(raw) - 1] = NL
  /\ Len(history) = 1 /\ history[1] # Hole
  /\ history[1].text = raw

\* C19: round trip between makeRange and getPosition: for every tree (text
\* leaves, <br> nodes, a nested element, empty leaves), with S the text
\* toString returns and every offset o from 0 to the length of S, the
\* position computed for the collapsed range makeRange builds for o has
\* offset o. The range is the selection after edit.move(o), the position
\* what getPosition returns for it and what a selectstart event then stores;
\* the traversal of src/src/useEditable.ts is held to the same.
C19_RoundTrip ==
  \A o \in 0..Len(toString(tree)) :
    sel = makeRange(tree, o, NoEnd) =>
      /\ ev.op = "move" => getPosition(tree, sel).position = o
      /\ ev.op = "move" => getPositionByTraversal(tree, sel).position = o
      /\ ev.op = "select" => position.position = o

\* The canonical text that precedes boundary point bp: the data of the text
\* leaves before it, of its own leaf up to its offset, and one separator per
\* <br> before it. A caret in a <br>, or in its container just before it,
\* is on that <br>: onMarker tells whether its separator is counted.
RECURSIVE NodeOrder(_, _)
RECURSIVE NodeOrderKids(_, _, _)
NodeOrderKids(t, c, i) ==
  IF i > Len(KidsOf(t, c)) THEN <<>>
  ELSE NodeOrder(t, KidsOf(t, c)[i]) \o NodeOrderKids(t, c, i + 1)
NodeOrder(t, n) == <<n>> \o NodeOrderKids(t, n, 1)

RECURSIVE PrecedingIn(_, _, _, _)
PrecedingIn(t, bp, onMarker, ns) ==
  IF ns = <<>> THEN <<>>
  ELSE LET m == Head(ns)
           part ==
             IF m \in TextNodes
             THEN IF bp.n = m THEN Take(t.data[m], bp.o)
                  ELSE IF Ord(t, [n |-> m, o |-> 0]) < Ord(t, bp) THEN t.data[m]
                  ELSE <<>>
             ELSE IF m \in BrNodes
             THEN IF bp = [n |-> m, o |-> 0]
                     \/ bp = [n |-> ParentOf(t, m), o |-> IndexOf(t.kids[ParentOf(t, m)], m) - 1]
                  THEN (IF onMarker THEN <<NL>> ELSE <<>>)
                  ELSE IF Ord(t, [n |-> m, o |-> 0]) < Ord(t, bp) THEN <<NL>>
                  ELSE <<>>
             ELSE <<>>
       IN part \o PrecedingIn(t, bp, onMarker, Tail(ns))
Preceding(t, bp, onMarker) == PrecedingIn(t, bp, onMarker, Tail(NodeOrder(t, Root)))

\* C20: for every tree and every selection location inside it (in a text
\* leaf, between the nodes of a container, on a <br>, at the end of a nested
\* element), getPosition returns a position equal to the number of
\* canonical-text characters that precede the location, a line equal to the
\* number of separators among them and a content equal to the characters
\* after the last of them. The position is the one a selectstart event
\* stores for the caret; the traversal of src/src/useEditable.ts is held to
\* the same for the caret as placed.
C20_PositionCountsPreceding ==
  Collapsed(sel) /\ sel.s \in Range(Walk(tree, Root)) =>
    /\ ev.op = "select" =>
         \E onMarker \in BOOLEAN :
           LET c == Preceding(tree, sel.s, onMarker) IN
           /\ position.position = Len(c)
           /\ position.line = CountNL(c)
           /\ position.content = LastLine(c)
    /\ ev.op = "caret" =>
         \E onMarker \in BOOLEAN :
           LET c == Preceding(tree, sel.s, onMarker) IN
           getPositionByTraversal(tree, sel) =
             [position |-> Len(c), content |-> LastLine(c), line |-> CountNL(c)]

\* C21: every position passed to onChange, by a flush, by undo or redo, or
\* by update() with any content, has a position of at least 0 and an extent
\* of at least 0.
C21_PositionsNonNegative ==
  \A i \in 1..Len(ev.out) :
    /\ ev.out[i].position.position >= 0
    /\ ev.out[i].position.extent >= 0

\* C22: a malformed selection location never makes getPosition fail: when
\* the selection lies outside the element's tree, or the tree is empty,
\* getPosition returns the default position 0. The position is what
\* edit.getState() returns, what the traversal of src/src/useEditable.ts
\* computes, and what edit.update() starts from before it adds the
\* difference of the lengths.
C22_OutsideSelectionGivesZero ==
  (Collapsed(sel) /\ (sel.s.n = Doc \/ tree.kids[Root] = <<>>)) =>
    /\ ev.op = "caret" => getState(Cur).position.position = 0
    /\ ev.op = "caret" => getPositionByTraversal(tree, sel).position = 0
    /\ ev.op = "update" =>
         ev.out[1].position.position = Len(ev.out[1].text) - Len(toString(tree))

\* C23: insert(text) with a collapsed caret at offset o in content c yields
\* a tree whose canonical text is c with text inserted at o, and a caret at
\* offset o + len(text); for content "ab", caret 1 and insert("X") the
\* content becomes "aXb" and the caret offset 2. Offsets are counted in the
\* canonical text, a caret on a <br> either way.
C23_InsertAtCaret ==
  [][\A text \in InsertTexts :
       (/\ Collapsed(sel) /\ sel.s \in Range(Walk(tree, Root))
        /\ pending = <<>> /\ Cardinality(FreeNodes(Cur)) >= 2
        /\ Commit(insert(Cur, text, 0), "insert"))
       => \E onMarker \in BOOLEAN :
            LET c == TreeText(tree)
                o == Len(Preceding(tree, sel.s, onMarker))
            IN /\ TreeText(tree') = Take(c, o) \o text \o Drop(c, o)
               /\ Collapsed(sel')
               /\ \E m \in BOOLEAN : Len(Preceding(tree', sel'.s, m)) = o + Len(text)]_vars

\* The canonical offset of boundary point bp, a caret on a <br> counted
\* before it.
OffsetOf(t, bp) == Len(Preceding(t, bp, FALSE))

\* C24: insert(text, deleteOffset) first deletes the current selection, or,
\* for a collapsed caret at offset p, the window [p + deleteOffset, p) when
\* deleteOffset is negative and [p, p + deleteOffset) when it is positive
\* (a window that reaches before offset 0 or past the end of the content is
\* cut there), then inserts text as one text node, and for every p and every
\* deleteOffset leaves the caret immediately after the inserted text.
C24_InsertDeletesWindow ==
  [][\A text \in InsertTexts, d \in DeleteOffsets :
       (/\ sel.s \in Range(Walk(tree, Root)) /\ sel.e \in Range(Walk(tree, Root))
        /\ Collapsed(sel) \/ d = 0
        /\ pending = <<>> /\ Cardinality(FreeNodes(Cur)) >= 2
        /\ Commit(insert(Cur, text, d), "insert"))
       => LET c == TreeText(tree)
              lo0 == OffsetOf(tree, sel.s) + (IF d < 0 THEN d ELSE 0)
              hi0 == OffsetOf(tree, sel.e) + (IF d > 0 THEN d ELSE 0)
              lo == IF lo0 < 0 THEN 0 ELSE lo0
              hi == IF hi0 > Len(c) THEN Len(c) ELSE hi0
          IN /\ TreeText(tree') = Take(c, lo) \o text \o Drop(c, hi)
             /\ \E n \in InTree(tree') \ InTree(tree) : tree'.data[n] = text
             /\ Collapsed(sel')
             /\ OffsetOf(tree', sel'.s) = lo + Len(text)]_vars

\* C25: pressing Enter inserts a line separator followed by the leading
\* whitespace of the caret's current line (the line's text before the caret
\* up to its first non-whitespace character, or all of it if there is none)
\* and leaves the caret after the inserted segment.
C25_EnterKeepsIndentation ==
  [][(/\ Collapsed(sel) /\ sel.s \in Range(Walk(tree, Root))
      /\ Idle /\ ~disconnected /\ Cardinality(FreeNodes(Cur)) >= 2
      /\ Commit(onKeyDown(Cur, "Enter", FALSE), "enter"))
     => LET c == TreeText(tree)
            o == OffsetOf(tree, sel.s)
            lineText == LastLine(Take(c, o))
            segment == <<NL>> \o Take(lineText, IndentLen(lineText))
        IN /\ TreeText(tree') = Take(c, o) \o segment \o Drop(c, o)
           /\ Collapsed(sel')
           /\ OffsetOf(tree', sel'.s) = o + Len(segment)
           /\ ev'.prevented]_vars

\* Whether new is old with one run of characters inserted or deleted, the
\* run lying wholly before offset o.
OneEditBefore(old, new, o) ==
  \/ \E i \in 0..o : \E k \in 1..Len(new) :
       Len(new) = Len(old) + k /\ Take(new, i) = Take(old, i) /\ Drop(new, i + k) = Drop(old, i)
  \/ \E i \in 0..o : \E k \in 1..(o - i) :
       Len(old) = Len(new) + k /\ Take(new, i) = Take(old, i) /\ Drop(old, i + k) = Drop(new, i)

\* C26: update(content) calls onChange exactly once, with the given content
\* and with a position whose offset is the caret's current offset plus the
\* length of content minus the length of the current canonical text, and it
\* stores that position as state.position; when content differs from the
\* current text by one insertion or deletion that lies before the caret,
\* the new offset designates the same character as before.
C26_UpdateShiftsCaret ==
  [][\A content \in OpsUpdates :
       (/\ Collapsed(sel) /\ sel.s \in Range(Walk(tree, Root))
        /\ pending = <<>>
        /\ Commit(update(Cur, content), "update"))
       => LET text == toString(tree)
              o == OffsetOf(tree, sel.s)
              new == o + Len(content) - Len(text)
          IN /\ Len(ev'.out) = 1
             /\ ev'.out[1].text = content
             /\ ev'.out[1].position.position = new
             /\ position' = ev'.out[1].position
             /\ OneEditBefore(text, content, o) => Drop(content, new) = Drop(text, o)]_vars

\* The offset at which line row of text starts: the lengths of the lines
\* before it and one separator after each.
RECURSIVE StartOfLine(_, _)
StartOfLine(text, row) ==
  IF row = 0 THEN 0
  ELSE LET i == Min({j \in 1..Len(text) : text[j] = NL})
       IN i + StartOfLine(Drop(text, i), row - 1)

\* C27: move(n) places a collapsed caret at the absolute offset n, and
\* move({row, column}) places it at the offset of the start of line row of
\* the canonical text (the lengths of the lines before it plus one separator
\* each) plus column; move changes neither the tree nor the history and
\* calls no onChange. The offsets are those the tree holds (up to the
\* length of its text) and the rows the lines the canonical text has.
C27_MovePlacesCaret ==
  [][\A row \in MoveRows \cup {NoEnd}, column \in 0..Len(TreeText(tree)) :
       (/\ pending = <<>>
        /\ row # NoEnd => row <= CountNL(toString(tree))
        /\ Commit(move(Cur, [row |-> row, column |-> column]), "move"))
       => LET n == IF row = NoEnd THEN column
                   ELSE StartOfLine(toString(tree), row) + column
          IN /\ n <= Len(TreeText(tree)) =>
                  /\ Collapsed(sel')
                  /\ \E onMarker \in BOOLEAN : Len(Preceding(tree', sel'.s, onMarker)) = n
             /\ tree' = tree /\ history' = history /\ historyAt' = historyAt
             /\ ev'.out = <<>>]_vars

\* C28: a flush that rolls the queue back never fails, whatever happened to
\* the nodes its records name: no DOM operation throws, every record is
\* taken off the queue and onChange is called once.
C28_RollbackNeverFails ==
  ev.rolled => (~ev.threw /\ queue = <<>> /\ Len(ev.out) = 1)

\* C29: a keydown on the element while the disconnected flag is set, with
\* whatever key, is prevented and asks for the dummy state change
\* (unblock); it attempts no snapshot, moves nothing in the history, flushes
\* nothing, changes neither the tree, the queue nor the stored position, and
\* calls no onChange.
C29_KeyDownWhileDisconnected ==
  [][(disconnected /\ ev'.op = "keydown")
       => /\ ev'.prevented /\ ev'.unblock
          /\ ev'.tracks = <<>> /\ ev'.flushes = <<>> /\ ev'.out = <<>>
          /\ UNCHANGED <<tree, sel, queue, pending, history, historyAt,
                         position, disconnected, observing>>]_vars

\* A keydown that met the disconnected flag.
C29_Witness == disconnected /\ ev.op = "keydown" /\ ev.prevented /\ ev.unblock

\* A text as toString gives it: with a separator at its end.
WithSeparator(text) ==
  IF text # <<>> /\ text[Len(text)] = NL THEN text ELSE text \o <<NL>>

\* C30: a paste while the stored position is known leaves the history ending
\* with the content before the paste and the content after it (the text put
\* in place of the selection) as its last two entries, the second being the
\* current one; only the second is new when the content before the paste
\* was the current entry already; and onChange is called exactly once, with
\* the content after the paste.
C30_PasteRecordsBothContents ==
  [][\A text \in PasteTexts :
       (/\ Idle /\ Cardinality(FreeNodes(Cur)) >= 2
        /\ position # NoPos
        /\ Commit(onPaste(Cur, text), "paste"))
       => LET pre == toString(tree)
              from == OffsetOf(tree, sel.s)
              to == OffsetOf(tree, sel.e)
              post == WithSeparator(Take(TreeText(tree), from) \o text
                                      \o Drop(TreeText(tree), to))
              last == HistoryGet(history, historyAt)
              n == Len(history')
          IN /\ n >= 2
             /\ historyAt' = n - 1
             /\ history'[n] # Hole /\ history'[n].text = post
             /\ history'[n - 1] # Hole /\ history'[n - 1].text = pre
             /\ n = historyAt + 1 + (IF last # Hole /\ last.text = pre THEN 1 ELSE 2)
             /\ Len(ev'.out) = 1 /\ ev'.out[1].text = post]_vars

\* The number of characters Backspace is to delete before offset p of
\* text with an indentation of n: one unit when the line's text before p
\* is a non-empty whole number of units, one character otherwise.
BackspaceLength(text, p, n) ==
  LET line == LastLine(Take(text, p))
  IN IF n > 0 /\ line # <<>> /\ Len(line) % n = 0 /\ \A i \in 1..Len(line) : line[i] = " "
     THEN n ELSE 1

\* C31: when the hook handles Backspace itself (no plaintext-only support,
\* or an indentation set) with a collapsed caret at an offset p > 0, the
\* tree's text loses exactly the one character before the caret, or the one
\* indentation unit before it when the line's text before the caret is a
\* non-empty whole number of units, and the caret is collapsed that many
\* characters further back; also at the start of a line, where the
\* separator before the caret is deleted.
C31_BackspaceDeletesOne ==
  [][(/\ Idle /\ Cardinality(FreeNodes(Cur)) >= 2
      /\ ~opts.plaintext \/ opts.indentation # 0
      /\ Collapsed(sel) /\ sel.s.n # Doc
      /\ OffsetOf(tree, sel.s) > 0
      /\ Commit(onKeyDown(Cur, "Backspace", FALSE), "backspace"))
     => LET p == OffsetOf(tree, sel.s)
            k == BackspaceLength(TreeText(tree), p, opts.indentation)
        IN /\ ~ev'.threw /\ ev'.prevented
           /\ TreeText(tree') = Take(TreeText(tree), p - k) \o Drop(TreeText(tree), p)
           /\ Collapsed(sel')
           /\ OffsetOf(tree', sel'.s) = p - k]_vars

\* C32: a keyup during a composition or with its default prevented attempts
\* no snapshot, flushes nothing, rolls nothing back and leaves the queue,
\* the tree and the session as they are; the records made meanwhile stay
\* queued, and the next keyup that is not skipped rolls all of them back
\* (the tree is the one before the first of them, the queue is empty) and
\* reports the content they had produced, once.
C32_ComposingKeyUpSkipped ==
  [][/\ ev'.op = "keyup-composing" =>
          /\ ev'.tracks = <<>> /\ ev'.flushes = <<>> /\ ~ev'.rolled /\ ev'.out = <<>>
          /\ UNCHANGED <<tree, sel, queue, pending, history, historyAt,
                         position, disconnected, observing>>
     /\ (ev'.op = "keyup" /\ queue \o pending # <<>>) =>
          /\ ev'.rolled /\ ~ev'.threw
          /\ queue' = <<>> /\ pending' = <<>>
          /\ HasSnap => Leaves(tree') = Leaves(snap)
          /\ Len(ev'.out) = 1 /\ ev'.out[1].text = toString(tree)]_vars

\* A skipped keyup with records of the composition in the queue.
C32_Witness == ev.op = "keyup-composing" /\ queue # <<>>

\* The offset at which the line holding offset p of text starts.
LineStartOf(text, p) == p - Len(LastLine(Take(text, p)))

\* C33: with an indentation of n, Tab changes nothing in the tree and emits
\* once the content with n spaces inserted at the start of the caret's line
\* and the caret's offset plus n; Shift+Tab on a line that starts with n
\* spaces changes nothing in the tree and emits once the content without
\* them, and the caret's offset minus n when the caret is behind them; and
\* Tab, a render pass and Shift+Tab emit the content and the offset that
\* were there before the Tab.
C33_TabIndentsLine ==
  [][(/\ Idle /\ opts.indentation # 0
      /\ Collapsed(sel) /\ sel.s.n # Doc)
     => LET n == opts.indentation
            p == OffsetOf(tree, sel.s)
            text == toString(tree)
            start == LineStartOf(text, p)
        IN /\ Commit(onKeyDown(Cur, "Tab", FALSE), "tab") =>
                /\ tree' = tree
                /\ Len(ev'.out) = 1
                /\ ev'.out[1].text = Take(text, start) \o Spaces(n) \o Drop(text, start)
                /\ ev'.out[1].position.position = p + n
                /\ LET M3 == onKeyDown(renderPass(onKeyDown(Cur, "Tab", FALSE), TRUE),
                                       "ShiftTab", FALSE)
                   IN /\ Len(M3.out) = 2
                      /\ M3.out[2].text = text
                      /\ M3.out[2].position.position = p
           /\ (/\ IsPrefix(Spaces(n), Drop(text, start))
               /\ Commit(onKeyDown(Cur, "ShiftTab", FALSE), "shifttab")) =>
                /\ tree' = tree
                /\ Len(ev'.out) = 1
                /\ ev'.out[1].text = Take(text, start) \o Drop(text, start + n)
                /\ p - start >= n => ev'.out[1].position.position = p - n]_vars

\* C34: in every reachable state the history is well formed: the current
\* index is -1 exactly when the history is empty, it is otherwise the index
\* of one of its entries, and no index up to the last is a hole.
C34_HistoryWellFormed ==
  /\ historyAt = -1 <=> history = <<>>
  /\ history # <<>> => (0 <= historyAt /\ historyAt < Len(history))
  /\ \A i \in 1..Len(history) : history[i] # Hole

\* C35: the queue is empty whenever a render pass that follows an emission
\* re-establishes observation, so that no record of the tree of an earlier
\* pass is left to be rolled back against the re-rendered tree.
C35_QueueEmptyAtRender ==
  [][(ev.out # <<>> /\ ev'.op = "render") => (queue' = <<>> /\ ~disconnected')]_vars

C37_RedoRestoresUndone ==
  [][(/\ Idle
      /\ Commit(onKeyDown(Cur, "undo", FALSE), "undo")
      /\ ev'.out # <<>>)
     => LET M3 == onKeyDown(renderPass(onKeyDown(Cur, "undo", FALSE), TRUE), "redo", FALSE)
        IN /\ Len(M3.out) = 2
           /\ M3.out[2].text = toString(tree)]_vars

\* C38: when the owner renders after every emission and every unblock
\* request, the session is disconnected only by a handler that emits, a
\* disconnected session always comes to observe again (the flag is false),
\* and a keydown made while the flag is false is not suppressed: it asks
\* for no unblock.
C38_BlockedStateIsLeft ==
  /\ disconnected ~> (~disconnected /\ observing = observerSettings)
  /\ [][(~disconnected /\ disconnected') => ev'.out # <<>>]_vars
  /\ [][(~disconnected /\ ev'.op = "keydown") => ~ev'.unblock]_vars

\* A render pass has ended the blocked state.
C38_Witness ==
  /\ ev.op = "rerender"
  /\ ~disconnected /\ observing = observerSettings

\* C39: with a known position, an unforced snapshot attempt that meets a
\* content other than that of the entry at the current index, 500 ms or more
\* after the attempt before it (or with no attempt before it since the
\* handlers were installed), records an entry.
C39_LateAttemptRecords ==
  \A tr \in Tracks : (~tr.force /\ ~tr.same /\ tr.late) => (~tr.kept /\ tr.stored)

\* A keyup recorded a second entry 500 ms or more after the first.
C39_Witness ==
  /\ ev.op = "keyup"
  /\ \E tr \in Tracks :
       ~tr.force /\ ~tr.same /\ tr.late /\ tr.lenBefore >= 1 /\ ~tr.kept
          /\ tr.len = tr.lenBefore + 1

\* The first attempt after the handlers were installed recorded an entry.
C39_FirstAttempt ==
  /\ ev.op = "keyup"
  /\ \E tr \in Tracks : ~tr.force /\ tr.late /\ tr.lenBefore = 0 /\ ~tr.kept

====
